---- MODULE Spec2Model ----
(***************************************************************************)
(* A model of gtb (Graphics Test Bench): device negotiation, memory-type   *)
(* lookup, the per-frame draw() protocol against a concurrently running    *)
(* GPU, and teardown.  Three specifications share one set of variables:    *)
(*   SpecMem    application::get_memory_type, one loop iteration per step  *)
(*   SpecSelect application::vk_init up to the created swap chain          *)
(*   SpecFrame  the run loop, draw(), the GPU queue, and teardown          *)
(***************************************************************************)
EXTENDS Naturals, Integers, Sequences, FiniteSets, TLC

VARIABLES
    \* ---- get_memory_type (gtb.cpp:2128-2143)
    m_memory_properties,   \* memoryTypes[i].propertyFlags, i = 0..count-1
    desired_memory_properties, \* the flags argument
    requested_types,       \* the allowed_types argument as passed by the caller
    allowed_types,         \* the local copy the loop clears bits in
    mem_type,              \* the out-parameter of _BitScanForward
    mt_pc,                 \* "off" | "loop" | "returned" | "thrown"
    mt_result,             \* the returned index (NoIndex before a return)
    \* ---- vk_init (gtb.cpp:693-983)
    vk_pc,                 \* position inside vk_init
    enumerated,            \* the physical devices enumeratePhysicalDevices returns
    m_instance, m_surface, m_physical_device, m_queue_family_index,
    m_device, m_queue, m_command_pool, m_swap_chain,
    error,                 \* description of the exception in flight, or NoError
    select_calls,          \* times the physical-device scan has been run
    \* ---- run, draw, cleanup (gtb.cpp:603-656, 2150-2259); ~impl (graphics.cpp)
    unit,                  \* "application" (gtb.cpp) | "graphics_impl" (graphics.cpp)
    pc,                    \* position of the CPU thread
    draw_caller,           \* "run" | "refresh": where draw() returns to
    should_close,          \* glfwWindowShouldClose(m_window)
    image_count,           \* m_swap_chain_color_images.size()
    draw_count,            \* m_draws.size()
    image_state,           \* per swap chain image: "free" | "acquired" | "presented"
    m_next_image_ready,    \* the acquire fence: "signaled" | "unsignaled" | "pending"
    acquired_image,        \* the local of draw()
    acquire_result,        \* the vk::Result acquireNextImageKHR has returned beside it
    m_command_fences,      \* per image: "signaled" | "unsignaled"
    m_command_buffers,     \* per image: "initial" | "recording" | "executable" | "pending" | "invalid"
    m_uniform_buffers,     \* per image: the number of transforms the buffer holds
    ubo_data,              \* the uniform buffer that is mapped (NoImage when none is)
    draw_i,                \* draws recorded so far in this draw()
    gpu_queue,             \* submissions the GPU has not finished, oldest first
    teardown_i,            \* position in the teardown sequence
    teardown_log,          \* what teardown has done so far, in order
    per_image_objects,     \* sizes of the other vectors made per swap chain image
    m_draws,               \* the draw records of the scene, in order
    m_ubo_min_field_align, \* limits.minUniformBufferOffsetAlignment
    ubo_offset,            \* the local of draw()
    recorded_draws,        \* what the per-draw loop has put in the command buffer
    \* ---- create_static_buffer, create_texture (gtb.cpp:1876-2107)
    up_pc,                 \* position inside the upload
    up_kind,               \* "buffer" (create_static_buffer) | "texture" (create_texture)
    payload,               \* the bytes to upload, one sequence per mip level (one for a buffer)
    staging_buffer,        \* device_buffer staging_buffer: handles and contents
    optimized,             \* optimized_buffer / optimized_texture: handles and contents
    copy_command_buffer,   \* "none" | "recording" | "pending" | "invalid" | "freed"
    m_static_resources,    \* m_static_buffers and m_textures: the contents of each
    \* ---- main, error::handle_exception (gtb.cpp:169-236, 2305-2328)
    ret_val,               \* the local of main
    exception_log,         \* exception.log: "none" | "written" | "unopened"
    \* ---- vk_debug_report (gtb.cpp:2270-2302), debug_report (graphics.cpp:461-495)
    debug_report,          \* the arguments the validation layer calls back with
    raised,                \* the exception the callback throws, as a handler reads it
    callback_result,       \* "none" | "VK_FALSE" | "thrown"
    \* ---- vk_create_swap_chain from getSwapchainImagesKHR on (gtb.cpp:1007-1094)
    chain_pc,                  \* "off" | "start" | "loop" | "wait_idle" | "returned" | "failed"
    swap_chain_color_images,   \* how many images getSwapchainImagesKHR has returned
    m_swap_chain_color_images, \* how many color views are in the vector
    m_swap_chain_depth_images, \* the depth images, in the order of emplace_back
    layout_command_buffer,     \* the one-time command buffer: its state and commands
    \* ---- the extension checks taken alone (gtb.cpp:763-787, 852-865)
    ext_pc,                \* "enumerated" | "checked"
    ext_unit,              \* "instance" | "device": which of the two checks runs
    enumerated_extensions, \* the names the enumeration has returned
    required_extensions,   \* the names asked for
    ext_accepted,          \* whether the check has let the instance or adapter pass
    \* ---- gltf_load (gtb.cpp:1520-1838)
    load_pc,               \* "off" | "first_pass" | "second_pass" | "returned"
    gltf_model,            \* tinygltf::Model model: meshes, nodes and the default scene
    visits,                \* the primitives the traversal under way has yet to come to
    load_state,            \* gltf_load_state: loaded_ibo, draws, simple_immutable_sets, draw_index
    m_static_buffers,      \* per stored buffer: what it was uploaded for
    m_textures,            \* per stored texture: the uri it was loaded from
    descriptor_writes      \* per allocated descriptor set: the texture written to it

memVars == <<m_memory_properties, desired_memory_properties, requested_types,
             allowed_types, mem_type, mt_pc, mt_result>>
selVars == <<vk_pc, enumerated, m_instance, m_surface, m_physical_device,
             m_queue_family_index, m_device, m_queue, m_command_pool,
             m_swap_chain, error, select_calls>>
frameVars == <<unit, pc, draw_caller, should_close, image_count, draw_count,
               image_state, m_next_image_ready, acquired_image, acquire_result, m_command_fences,
               m_command_buffers, m_uniform_buffers, ubo_data, draw_i, gpu_queue,
               teardown_i, teardown_log, per_image_objects, m_draws,
               m_ubo_min_field_align, ubo_offset, recorded_draws>>
uploadVars == <<up_pc, up_kind, payload, staging_buffer, optimized,
                copy_command_buffer, m_static_resources>>
mainVars == <<ret_val, exception_log>>
reportVars == <<debug_report, raised, callback_result>>
chainVars == <<chain_pc, swap_chain_color_images, m_swap_chain_color_images,
               m_swap_chain_depth_images, layout_command_buffer>>
extVars == <<ext_pc, ext_unit, enumerated_extensions, required_extensions, ext_accepted>>
gltfVars == <<load_pc, gltf_model, visits, load_state, m_static_buffers, m_textures,
              descriptor_writes>>
vars == <<memVars, selVars, frameVars, uploadVars, mainVars, reportVars, chainVars,
          extVars, gltfVars>>

\* the extension checks are not looked at on their own
ExtIdle ==
    /\ ext_pc = "checked"
    /\ ext_unit = "device"
    /\ enumerated_extensions = <<>>
    /\ required_extensions = <<>>
    /\ ext_accepted = FALSE

\* gltf_load is not looked at
GltfIdle ==
    /\ load_pc = "off"
    /\ gltf_model = <<>>
    /\ visits = <<>>
    /\ load_state = <<>>
    /\ m_static_buffers = <<>>
    /\ m_textures = <<>>
    /\ descriptor_writes = <<>>

\* ------------------------------------------------------------------------
\* Bounds of the model
\* ------------------------------------------------------------------------
MaxMemoryTypes == 4
MaxAdapters == 3
MaxImages == 3
MaxDraws == 2
MaxLevels == 2
MaxBytes == 2
MaxUploads == 2

\* ------------------------------------------------------------------------
\* Bit operations on unsigned masks
\* ------------------------------------------------------------------------
RECURSIVE Pow2(_)
Pow2(n) == IF n = 0 THEN 1 ELSE 2 * Pow2(n - 1)

Bit(x, i) == (x \div Pow2(i)) % 2 = 1

\* no index has been returned (not a value of the program)
NoIndex == 0 - 1

\* _BitScanForward(&index, mask): the index of the lowest set bit; the
\* return value is nonzero exactly when mask # 0.
BitScanForwardFound(mask) == mask # 0

RECURSIVE LowestBitFrom(_, _)
LowestBitFrom(mask, i) == IF Bit(mask, i) THEN i ELSE LowestBitFrom(mask, i + 1)

BitScanForwardIndex(mask) == LowestBitFrom(mask, 0)

\* allowed_types &= ~(1 << mem_type)
ClearBit(mask, i) == IF Bit(mask, i) THEN mask - Pow2(i) ELSE mask

\* ------------------------------------------------------------------------
\* get_memory_type
\* ------------------------------------------------------------------------
HostVisible == "eHostVisible"
HostCoherent == "eHostCoherent"
DeviceLocal == "eDeviceLocal"

ubo_memory_properties == {HostVisible, HostCoherent}
staging_memory_properties == {HostVisible, HostCoherent}
optimized_memory_properties == {DeviceLocal}

\* The property-flag sets a memory type of the modelled devices can report.
TypeFlagSets == {{}, {DeviceLocal}, {HostVisible}, {HostVisible, HostCoherent}}

\* The requests the program makes (uniform/staging buffers, static
\* buffers, depth images and textures).
RequestFlagSets == {staging_memory_properties, optimized_memory_properties}

MemoryTables == UNION {[0 .. (n - 1) -> TypeFlagSets] : n \in 1 .. MaxMemoryTypes}

TypeCount(table) == Cardinality(DOMAIN table)

\* (propertyFlags & desired) == desired
PropertiesMatchWrongly(flags, desired) == (flags \cap desired) # {}
PropertiesMatch(flags, desired) == (flags \cap desired) = desired

\* the statement executed when the type at mem_type does not match
NextAllowedStuck(mask, i) == mask
NextAllowed(mask, i) == ClearBit(mask, i)

MemIdle ==
    /\ m_memory_properties = <<>>
    /\ desired_memory_properties = {}
    /\ requested_types = 0
    /\ allowed_types = 0
    /\ mem_type = 0
    /\ mt_pc = "off"
    /\ mt_result = NoIndex

\* The call: the caller passes memoryTypeBits of a resource, which has bits
\* only for the memory types the device reports.
InitMemCall ==
    /\ m_memory_properties \in MemoryTables
    /\ desired_memory_properties \in RequestFlagSets
    /\ requested_types \in 0 .. (Pow2(TypeCount(m_memory_properties)) - 1)
    /\ allowed_types = requested_types
    /\ mem_type = 0
    /\ mt_pc = "loop"
    /\ mt_result = NoIndex

\* while (_BitScanForward(&mem_type, allowed_types)): a matching type
GetMemoryTypeReturn ==
    /\ mt_pc = "loop"
    /\ BitScanForwardFound(allowed_types)
    /\ LET i == BitScanForwardIndex(allowed_types) IN
          /\ PropertiesMatch(m_memory_properties[i], desired_memory_properties)
          /\ mem_type' = i
          /\ mt_result' = i
          /\ mt_pc' = "returned"
    /\ UNCHANGED <<m_memory_properties, desired_memory_properties,
                   requested_types, allowed_types>>
    /\ UNCHANGED <<selVars, frameVars, uploadVars, mainVars, reportVars, extVars, gltfVars, chainVars>>

\* ... a type that does not match: its bit is cleared and the scan repeats
GetMemoryTypeSkip ==
    /\ mt_pc = "loop"
    /\ BitScanForwardFound(allowed_types)
    /\ LET i == BitScanForwardIndex(allowed_types) IN
          /\ ~PropertiesMatch(m_memory_properties[i], desired_memory_properties)
          /\ mem_type' = i
          /\ allowed_types' = NextAllowed(allowed_types, i)
    /\ UNCHANGED <<m_memory_properties, desired_memory_properties,
                   requested_types, mt_pc, mt_result>>
    /\ UNCHANGED <<selVars, frameVars, uploadVars, mainVars, reportVars, extVars, gltfVars, chainVars>>

\* the loop ends with no bit left: BOOST_THROW_EXCEPTION(capability_exception)
GetMemoryTypeThrow ==
    /\ mt_pc = "loop"
    /\ ~BitScanForwardFound(allowed_types)
    /\ mt_pc' = "thrown"
    /\ UNCHANGED <<m_memory_properties, desired_memory_properties,
                   requested_types, allowed_types, mem_type, mt_result>>
    /\ UNCHANGED <<selVars, frameVars, uploadVars, mainVars, reportVars, extVars, gltfVars, chainVars>>

NextMem ==
    \/ GetMemoryTypeReturn
    \/ GetMemoryTypeSkip
    \/ GetMemoryTypeThrow

\* ------------------------------------------------------------------------
\* Physical devices as the Vulkan queries describe them
\* ------------------------------------------------------------------------
\* std::numeric_limits<uint32_t>::max() is beyond the integers of the model
\* checker; it stands here as the largest integer there is, above every
\* queue family count.
UINT32_MAX == 2147483647

NoError == [type |-> "none", description |-> ""]
CapabilityError(d) == [type |-> "capability_exception", description |-> d]
GlfwError(f) == [type |-> "glfw_exception", description |-> f]
VkError(f) == [type |-> "vk::Error", description |-> f]

RequiredDeviceExtensions == <<"VK_KHR_swapchain">>
RequiredInstanceExtensions == <<"VK_KHR_surface", "VK_KHR_win32_surface">>

Family(flags, present) == [queueFlags |-> flags, surface_support |-> present]
SurfaceFormat(f, cs) == [format |-> f, colorSpace |-> cs]

\* A device that passes every check; t is its deviceType.
Baseline(t) ==
    [device_extensions |-> <<"VK_KHR_maintenance1", "VK_KHR_swapchain">>,
     queue_family_properties |->
         <<Family({"eGraphics"}, TRUE), Family({"eGraphics", "eCompute", "eTransfer"}, TRUE)>>,
     surface_formats |->
         <<SurfaceFormat("eR8G8B8A8Unorm", "eSrgbNonlinear"),
           SurfaceFormat("eB8G8R8A8Unorm", "eSrgbNonlinear")>>,
     present_modes |-> <<"eFifo", "eMailbox">>,
     deviceType |-> t]

\* Lists a device may report in place of the baseline's.  The first group
\* are lists of a usable device (the family wanted at index 0, the single
\* "undefined" format); the second group each lack what one check looks for,
\* the empty list included.
UsableFamilyLists == {<<Family({"eGraphics", "eCompute"}, TRUE)>>}
UsableFormatLists == {<<SurfaceFormat("eUndefined", "eSrgbNonlinear")>>}

ExtensionLists == {<<>>, <<"VK_KHR_maintenance1">>}
FamilyLists ==
    {<<>>,
     <<Family({"eGraphics", "eCompute"}, FALSE), Family({"eTransfer"}, TRUE)>>}
FormatLists ==
    {<<>>,
     <<SurfaceFormat("eB8G8R8A8Unorm", "eExtendedSrgbLinearEXT")>>,
     <<SurfaceFormat("eUndefined", "eSrgbNonlinear"),
       SurfaceFormat("eR8G8B8A8Unorm", "eSrgbNonlinear")>>}
PresentModeLists == {<<>>, <<"eFifo", "eImmediate">>}
DeviceTypes == {"eIntegratedGpu", "eDiscreteGpu"}

\* The devices of the model: for each device type the baseline and the
\* baseline with a list of the first group; and, of the type the scan
\* prefers, the baseline with one list of the second group.
Adapters ==
    UNION {
        {Baseline(t)}
        \cup {[Baseline(t) EXCEPT !.queue_family_properties = q] : q \in UsableFamilyLists}
        \cup {[Baseline(t) EXCEPT !.surface_formats = f] : f \in UsableFormatLists}
      : t \in DeviceTypes}
    \cup {[Baseline("eDiscreteGpu") EXCEPT !.device_extensions = e] : e \in ExtensionLists}
    \cup {[Baseline("eDiscreteGpu") EXCEPT !.queue_family_properties = q] : q \in FamilyLists}
    \cup {[Baseline("eDiscreteGpu") EXCEPT !.surface_formats = f] : f \in FormatLists}
    \cup {[Baseline("eDiscreteGpu") EXCEPT !.present_modes = m] : m \in PresentModeLists}

AdapterLists == UNION {[1 .. n -> Adapters] : n \in 0 .. MaxAdapters}

\* ------------------------------------------------------------------------
\* The checks of the scan, computed as the loops compute them
\* ------------------------------------------------------------------------
\* std::count(first, last, value)
Count(seq, value) == Cardinality({i \in DOMAIN seq : seq[i] = value})

\* found += std::count(required.begin(), required.end(), name), for every
\* supported name in turn
RECURSIVE FoundExtensionsFrom(_, _, _)
FoundExtensionsFrom(supported, required, k) ==
    IF k > Len(supported) THEN 0
    ELSE Count(required, supported[k]) + FoundExtensionsFrom(supported, required, k + 1)

FoundExtensions(supported, required) == FoundExtensionsFrom(supported, required, 1)

\* for (queue_family_index = 0; queue_family_index < size; ++queue_family_index)
\* with the break on has_graphics_and_compute && surface_support; the value
\* the index has when the loop is left (size when nothing matched).
graphics_and_compute == {"eGraphics", "eCompute"}

RECURSIVE QueueFamilyScan(_, _)
QueueFamilyScan(families, index) ==
    IF index >= Len(families) THEN index
    ELSE LET f == families[index + 1]
             surface_support == f.surface_support
             has_graphics_and_compute ==
                 (f.queueFlags \cap graphics_and_compute) = graphics_and_compute
         IN IF has_graphics_and_compute /\ surface_support
            THEN index
            ELSE QueueFamilyScan(families, index + 1)

\* found_surface_format, lines 893-902
FoundSurfaceFormat(formats) ==
    \/ (Len(formats) = 1 /\ formats[1].format = "eUndefined")
    \/ \E k \in DOMAIN formats :
          /\ formats[k].format = "eB8G8R8A8Unorm"
          /\ formats[k].colorSpace = "eSrgbNonlinear"

\* found_present_mode, lines 915-921 (and a variant that takes any mode)
FoundPresentModeAny(modes) == \E k \in DOMAIN modes : TRUE
FoundPresentMode(modes) == \E k \in DOMAIN modes : modes[k] = "eMailbox"

\* if (device_props.deviceType == eDiscreteGpu) break; (and a variant
\* without the break)
QuitSearchingNever(pd) == FALSE
QuitSearching(pd) == pd.deviceType = "eDiscreteGpu"

\* The checks of the loop body on one device, up to "This physical device
\* could work": whether the queue family loop was reached (it assigns
\* queue_family_index), the value it leaves there, and whether every check
\* passed.
CheckDevice(pd) ==
    LET rejected(reached, q) == [scanned_families |-> reached, q |-> q, passes |-> FALSE]
    IN
    IF pd.device_extensions = <<>> THEN rejected(FALSE, 0)
    ELSE IF FoundExtensions(pd.device_extensions, RequiredDeviceExtensions)
              # Len(RequiredDeviceExtensions) THEN rejected(FALSE, 0)
    ELSE IF pd.queue_family_properties = <<>> THEN rejected(FALSE, 0)
    ELSE LET q == QueueFamilyScan(pd.queue_family_properties, 0) IN
         IF q = Len(pd.queue_family_properties) THEN rejected(TRUE, q)
    ELSE IF pd.surface_formats = <<>> THEN rejected(TRUE, q)
    ELSE IF ~FoundSurfaceFormat(pd.surface_formats) THEN rejected(TRUE, q)
    ELSE IF pd.present_modes = <<>> THEN rejected(TRUE, q)
    ELSE IF ~FoundPresentMode(pd.present_modes) THEN rejected(TRUE, q)
    ELSE [scanned_families |-> TRUE, q |-> q, passes |-> TRUE]

\* CheckDevice of every device of the model, evaluated once.
Checked == [pd \in Adapters |-> CheckDevice(pd)]

\* A variant of the loop body that keeps an earlier choice unless the device
\* at hand is discrete.
ScanStepKeepFirst(devs, i, found, qfi) ==
    LET pd == devs[i]
        c == Checked[pd]
        q == IF c.scanned_families THEN c.q ELSE qfi
    IN IF c.passes /\ (found = 0 \/ QuitSearching(pd))
       THEN [found |-> i, queue_family_index |-> q, stop |-> QuitSearching(pd)]
       ELSE [found |-> found, queue_family_index |-> q, stop |-> FALSE]

\* The body of the for loop over physical_devices for one device, given the
\* current values of found_physical_device and queue_family_index: the new
\* values of both, and whether the loop is left with break.
ScanStep(devs, i, found, qfi) ==
    LET pd == devs[i]
        c == Checked[pd]
        q == IF c.scanned_families THEN c.q ELSE qfi
    IN IF c.passes
       THEN [found |-> i, queue_family_index |-> q, stop |-> QuitSearching(pd)]
       ELSE [found |-> found, queue_family_index |-> q, stop |-> FALSE]

\* The for loop from device i on.
RECURSIVE ScanPhysicalDevices(_, _, _, _)
ScanPhysicalDevices(devs, i, found, qfi) ==
    IF i > Len(devs) THEN [found |-> found, queue_family_index |-> qfi]
    ELSE LET r == ScanStep(devs, i, found, qfi) IN
         IF r.stop THEN [found |-> r.found, queue_family_index |-> r.queue_family_index]
         ELSE ScanPhysicalDevices(devs, i + 1, r.found, r.queue_family_index)

\* ------------------------------------------------------------------------
\* vk_init: vk_create_instance, vk_create_device_objects, vk_create_swap_chain
\* ------------------------------------------------------------------------
InstanceExtensionLists ==
    {<<>>, <<"VK_KHR_surface">>,
     <<"VK_KHR_surface", "VK_KHR_win32_surface", "VK_EXT_debug_report">>}

SelIdle ==
    /\ vk_pc = "off"
    /\ enumerated = <<>>
    /\ m_instance = FALSE
    /\ m_surface = FALSE
    /\ m_physical_device = 0
    /\ m_queue_family_index = UINT32_MAX
    /\ m_device = FALSE
    /\ m_queue = FALSE
    /\ m_command_pool = FALSE
    /\ m_swap_chain = FALSE
    /\ error = NoError
    /\ select_calls = 0

\* application::application() has run and init() has reached vk_init().
InitSelect ==
    /\ vk_pc = "vk_create_instance"
    /\ enumerated \in AdapterLists
    /\ m_instance = FALSE
    /\ m_surface = FALSE
    /\ m_physical_device = 0
    /\ m_queue_family_index = UINT32_MAX
    /\ m_device = FALSE
    /\ m_queue = FALSE
    /\ m_command_pool = FALSE
    /\ m_swap_chain = FALSE
    /\ error = NoError
    /\ select_calls = 0

\* An exception leaves vk_init, init and run and is caught in main.
Throw(e) ==
    /\ error' = e
    /\ vk_pc' = "failed"

VkCreateInstance ==
    /\ vk_pc = "vk_create_instance"
    /\ \E supported_extensions \in InstanceExtensionLists :
          IF FoundExtensions(supported_extensions, RequiredInstanceExtensions)
                 # Len(RequiredInstanceExtensions)
          THEN /\ Throw(CapabilityError("Not all required vulkan instance extensions found."))
               /\ UNCHANGED m_instance
          ELSE /\ m_instance' = TRUE
               /\ vk_pc' = "vk_create_device_objects"
               /\ UNCHANGED error
    /\ UNCHANGED <<enumerated, m_surface, m_physical_device, m_queue_family_index,
                   m_device, m_queue, m_command_pool, m_swap_chain, select_calls>>
    /\ UNCHANGED <<chainVars, reportVars, extVars, gltfVars, mainVars, memVars, uploadVars, frameVars>>

\* the capability_exception thrown when found_physical_device is null
ExhaustionErrorAsEmpty == CapabilityError("No Vulkan physical devices enumerated.")
ExhaustionError == CapabilityError("No Vulkan physical devices meets requirements.")

\* glfwCreateWindowSurface fails
VkCreateDeviceObjectsNoSurface ==
    /\ vk_pc = "vk_create_device_objects"
    /\ Throw(GlfwError("glfwCreateWindowSurface"))
    /\ UNCHANGED <<enumerated, m_instance, m_surface, m_physical_device,
                   m_queue_family_index, m_device, m_queue, m_command_pool,
                   m_swap_chain, select_calls>>
    /\ UNCHANGED <<chainVars, reportVars, extVars, gltfVars, mainVars, memVars, uploadVars, frameVars>>

\* A variant of the rest of vk_create_device_objects that goes on to create
\* the device without testing found_physical_device.
CreateDeviceObjectsUnchecked(physical_devices) ==
    /\ m_surface' = TRUE
    /\ select_calls' = select_calls + 1
    /\ LET r == ScanPhysicalDevices(physical_devices, 1, 0, UINT32_MAX) IN
       /\ m_physical_device' = r.found
       /\ m_queue_family_index' = r.queue_family_index
       /\ m_device' = TRUE
       /\ m_queue' = TRUE
       /\ m_command_pool' = TRUE
       /\ vk_pc' = "vk_create_swap_chain"
       /\ UNCHANGED error

\* The rest of vk_create_device_objects for the list physical_devices that
\* enumeratePhysicalDevices returns.
CreateDeviceObjects(physical_devices) ==
    /\ m_surface' = TRUE
    /\ select_calls' = select_calls + 1
    /\ IF physical_devices = <<>>
       THEN /\ Throw(CapabilityError("No Vulkan physical devices enumerated."))
            /\ UNCHANGED <<m_physical_device, m_queue_family_index, m_device,
                           m_queue, m_command_pool>>
       ELSE LET r == ScanPhysicalDevices(physical_devices, 1, 0, UINT32_MAX) IN
            IF r.found # 0
            THEN /\ m_physical_device' = r.found
                 /\ m_queue_family_index' = r.queue_family_index
                 /\ m_device' = TRUE
                 /\ m_queue' = TRUE
                 /\ m_command_pool' = TRUE
                 /\ vk_pc' = "vk_create_swap_chain"
                 /\ UNCHANGED error
            ELSE /\ Throw(ExhaustionError)
                 /\ UNCHANGED <<m_physical_device, m_queue_family_index, m_device,
                                m_queue, m_command_pool>>

VkCreateDeviceObjects ==
    /\ vk_pc = "vk_create_device_objects"
    /\ CreateDeviceObjects(enumerated)
    /\ UNCHANGED <<enumerated, m_instance, m_swap_chain>>
    /\ UNCHANGED <<chainVars, reportVars, extVars, gltfVars, mainVars, memVars, uploadVars, frameVars>>

VkCreateSwapChain ==
    /\ vk_pc = "vk_create_swap_chain"
    /\ \/ /\ m_swap_chain' = TRUE
          /\ vk_pc' = "ready"
          /\ UNCHANGED error
       \/ /\ Throw(VkError("vk::Device::createSwapchainKHR"))
          /\ UNCHANGED m_swap_chain
    /\ UNCHANGED <<enumerated, m_instance, m_surface, m_physical_device,
                   m_queue_family_index, m_device, m_queue, m_command_pool,
                   select_calls>>
    /\ UNCHANGED <<chainVars, reportVars, extVars, gltfVars, mainVars, memVars, uploadVars, frameVars>>

NextSelect ==
    \/ VkCreateInstance
    \/ VkCreateDeviceObjectsNoSurface
    \/ VkCreateDeviceObjects
    \/ VkCreateSwapChain

\* ------------------------------------------------------------------------
\* The frame loop: run, draw, the GPU queue and the presentation engine
\* ------------------------------------------------------------------------
\* swap_chain_create_info.minImageCount
MinImageCount == 3

\* no image acquired, no buffer mapped (not a value of the program)
NoImage == 0 - 1

Images == 0 .. (image_count - 1)

\* uint32_t frames_in_flight = m_swap_chain_color_images.size(), the size
\* render_pass_init, per_frame_init and pipeline_init give their vectors
\* (and a variant one short)
frames_in_flight_one_short(color_images) == color_images - 1
frames_in_flight(color_images) == color_images

\* the indices of the vectors per_frame_init fills
PerFrameSlots(color_images) == 0 .. (frames_in_flight(color_images) - 1)

\* vk_create_swap_chain makes one view and one depth image per swap chain
\* image, render_pass_init one framebuffer and pipeline_init one descriptor
\* set per frame in flight
PerImageObjects(color_images) ==
    [m_swap_chain_color_images |-> color_images,
     m_swap_chain_depth_images |-> color_images,
     m_simple_framebuffers |-> frames_in_flight(color_images),
     m_simple_mutable_sets |-> frames_in_flight(color_images)]

\* fence_create_info.flags = eSignaled for the per-image fences (and a
\* variant without the flag)
CreatedFenceUnsignaled == "unsignaled"
CreatedFence == "signaled"

\* gltf_component_size(componentType)
gltf_component_size(component) ==
    CASE component \in {"BYTE", "UNSIGNED_BYTE"} -> 1
      [] component \in {"SHORT", "UNSIGNED_SHORT"} -> 2
      [] component \in {"INT", "UNSIGNED_INT", "FLOAT"} -> 4
      [] component = "DOUBLE" -> 8
      [] OTHER -> 0

\* index accessors of a model: the 6 indices of a quad, and two that start
\* inside their buffer view
QuadIndices == [count |-> 6, byteOffset |-> 0, componentType |-> "UNSIGNED_SHORT"]
Accessors ==
    {QuadIndices,
     [count |-> 3, byteOffset |-> 6, componentType |-> "UNSIGNED_SHORT"],
     [count |-> 3, byteOffset |-> 8, componentType |-> "UNSIGNED_INT"]}

\* the draw_record gltf_load_ibo and gltf_load_vbo fill for a primitive whose
\* buffers are m_static_buffers[vbo] and m_static_buffers[ibo]
node_draw(vbo, ibo, index_accessor) ==
    [vbo |-> vbo, ibo |-> ibo,
     first_index |-> index_accessor.byteOffset
                        \div gltf_component_size(index_accessor.componentType),
     index_count |-> index_accessor.count,
     vertex_offset |-> 0]

\* a scene of n quads, each with its own vertex and index buffer
SceneDraws(n) == [k \in 1 .. n |-> node_draw(2 * (k - 1), 2 * (k - 1) + 1, QuadIndices)]

\* the scenes the per-draw loop is checked on
DrawRecords == {node_draw(v, v + 1, a) : v \in {0, 2}, a \in Accessors}
DrawLists == UNION {[1 .. n -> DrawRecords] : n \in 0 .. MaxDraws}

\* limits.minUniformBufferOffsetAlignment is a power of two
UboAlignments == {16, 64, 256}

\* sizeof(glm::mat4)
SizeofMat4 == 64

\* value & ~mask on uint32_t
RECURSIVE AndNot(_, _)
AndNot(value, mask) ==
    IF value = 0 THEN 0
    ELSE 2 * AndNot(value \div 2, mask \div 2)
         + (IF value % 2 = 1 /\ mask % 2 = 0 THEN 1 ELSE 0)

\* align_up: (value + align - 1) & ~(align - 1) (and a variant that rounds
\* nothing); the sums stay far below 2^32 here
align_up_nothing(value, align) == value
align_up(value, align) == AndNot(value + align - 1, align - 1)

\* command_buffer.drawIndexed(d.index_count, 1, d.first_index,
\* d.vertex_offset, 0) (and a variant with the last two exchanged)
DrawIndexedCallExchanged(d) ==
    [index_count |-> d.index_count, first_index |-> d.vertex_offset,
     vertex_offset |-> d.first_index]
DrawIndexedCall(d) ==
    [index_count |-> d.index_count, first_index |-> d.first_index,
     vertex_offset |-> d.vertex_offset]

\* one pass of the per-draw loop, as the command buffer holds it
RecordedDraw(d, offset) ==
    [vertex_buffer |-> d.vbo, index_buffer |-> d.ibo,
     dynamic_ubo_offset |-> offset, drawIndexed |-> DrawIndexedCall(d)]

\* present_info.pImageIndices = &acquired_image (and a variant off by one)
PresentImageIndexNext(image) == (image + 1) % image_count
PresentImageIndex(image) == image

FrameIdle ==
    /\ unit = "none"
    /\ pc = "off"
    /\ draw_caller = "run"
    /\ should_close = FALSE
    /\ image_count = 0
    /\ draw_count = 0
    /\ image_state = <<>>
    /\ m_next_image_ready = "unsignaled"
    /\ acquired_image = NoImage
    /\ acquire_result = "none"
    /\ m_command_fences = <<>>
    /\ m_command_buffers = <<>>
    /\ m_uniform_buffers = <<>>
    /\ ubo_data = NoImage
    /\ draw_i = 0
    /\ gpu_queue = <<>>
    /\ teardown_i = 1
    /\ teardown_log = <<>>
    /\ per_image_objects = PerImageObjects(0)
    /\ m_draws = <<>>
    /\ m_ubo_min_field_align = 0
    /\ ubo_offset = 0
    /\ recorded_draws = <<>>

\* vk_init has succeeded on one qualifying discrete device.
SelReady ==
    /\ vk_pc = "ready"
    /\ enumerated = <<Baseline("eDiscreteGpu")>>
    /\ m_instance = TRUE
    /\ m_surface = TRUE
    /\ m_physical_device = 1
    /\ m_queue_family_index = 0
    /\ m_device = TRUE
    /\ m_queue = TRUE
    /\ m_command_pool = TRUE
    /\ m_swap_chain = TRUE
    /\ error = NoError
    /\ select_calls = 1

\* application::init has returned: the swap chain has its images, the
\* acquire fence and the per-image fences are created signaled, the command
\* buffers are allocated, nothing is submitted; run() is at its while test.
InitRun ==
    /\ unit = "application"
    /\ pc = "run_while"
    /\ draw_caller = "run"
    /\ should_close = FALSE
    /\ image_count \in MinImageCount .. MaxImages
    /\ draw_count \in 0 .. MaxDraws
    /\ image_state = [i \in Images |-> "free"]
    /\ m_next_image_ready = "signaled"
    /\ acquired_image = NoImage
    /\ acquire_result = "none"
    /\ m_command_fences = [i \in PerFrameSlots(image_count) |-> CreatedFence]
    /\ m_command_buffers = [i \in PerFrameSlots(image_count) |-> "initial"]
    /\ m_uniform_buffers = [i \in PerFrameSlots(image_count) |-> 0]
    /\ ubo_data = NoImage
    /\ draw_i = 0
    /\ gpu_queue = <<>>
    /\ teardown_i = 1
    /\ teardown_log = <<>>
    /\ per_image_objects = PerImageObjects(image_count)
    /\ m_draws = SceneDraws(draw_count)
    /\ m_ubo_min_field_align = 256
    /\ ubo_offset = 0
    /\ recorded_draws = <<>>

\* graphics::impl::impl has returned: instance, surface, device and swap
\* chain exist; this unit has no queue, records and submits nothing.
InitImpl ==
    /\ unit = "graphics_impl"
    /\ pc = "impl_alive"
    /\ draw_caller = "run"
    /\ should_close = FALSE
    /\ image_count = 0
    /\ draw_count = 0
    /\ image_state = <<>>
    /\ m_next_image_ready = "unsignaled"
    /\ acquired_image = NoImage
    /\ acquire_result = "none"
    /\ m_command_fences = <<>>
    /\ m_command_buffers = <<>>
    /\ m_uniform_buffers = <<>>
    /\ ubo_data = NoImage
    /\ draw_i = 0
    /\ gpu_queue = <<>>
    /\ teardown_i = 1
    /\ teardown_log = <<>>
    /\ per_image_objects = PerImageObjects(0)
    /\ m_draws = <<>>
    /\ m_ubo_min_field_align = 0
    /\ ubo_offset = 0
    /\ recorded_draws = <<>>

handleVars == <<m_instance, m_surface, m_device, m_command_pool, m_swap_chain>>
selRest == <<vk_pc, enumerated, m_physical_device, m_queue_family_index, m_queue,
             error, select_calls>>
swapVars == <<image_count, draw_count, per_image_objects, m_draws,
              m_ubo_min_field_align>>
recordVars == <<ubo_offset, recorded_draws>>
tearVars == <<teardown_i, teardown_log>>

\* waitForFences(fence, VK_FALSE, infinite_wait) returns once the fence is
\* signaled (and a variant that returns at once)
FenceWaitReturnsAtOnce(fence) == TRUE
FenceWaitReturns(fence) == fence = "signaled"

\* m_command_buffers[acquired_image], m_command_fences[acquired_image]
CommandSlot(image) == image

\* uniform_buffer = m_uniform_buffers[acquired_image], the buffer draw() maps
\* and writes (and a variant off by one)
UniformBufferOfNext(image) == (image + 1) % image_count
UniformBufferOf(image) == image

\* the buffer that m_simple_mutable_sets[acquired_image] binds: per_frame_init
\* writes m_uniform_buffers[i] into descriptor set i
DescriptorSetBuffer(image) == image

\* vk::SubmitInfo with one command buffer, and the fence of m_queue.submit;
\* uniform_buffer is the buffer the recorded commands read
SubmissionOfNextSlot(image) ==
    [command_buffer |-> (image + 1) % image_count, fence |-> (image + 1) % image_count,
     uniform_buffer |-> DescriptorSetBuffer(image)]
Submission(image) ==
    [command_buffer |-> CommandSlot(image), fence |-> CommandSlot(image),
     uniform_buffer |-> DescriptorSetBuffer(image)]

\* while (!glfwWindowShouldClose(m_window))
RunWhile ==
    /\ unit = "application" /\ pc = "run_while"
    /\ pc' = IF should_close THEN "cleanup" ELSE "poll"
    /\ UNCHANGED <<unit, draw_caller, should_close, swapVars, recordVars, image_state,
                   m_next_image_ready, acquired_image, acquire_result, m_command_fences,
                   m_command_buffers, m_uniform_buffers, ubo_data, draw_i,
                   gpu_queue, tearVars>>
    /\ UNCHANGED <<chainVars, reportVars, extVars, gltfVars, mainVars, memVars, uploadVars, selVars>>

\* glfwPollEvents delivers Escape (or the close button): glfw_key_callback
PollKey ==
    /\ unit = "application" /\ pc = "poll"
    /\ ~should_close
    /\ should_close' = TRUE
    /\ UNCHANGED <<unit, pc, draw_caller, swapVars, recordVars, image_state,
                   m_next_image_ready, acquired_image, acquire_result, m_command_fences,
                   m_command_buffers, m_uniform_buffers, ubo_data, draw_i,
                   gpu_queue, tearVars>>
    /\ UNCHANGED <<chainVars, reportVars, extVars, gltfVars, mainVars, memVars, uploadVars, selVars>>

\* glfwPollEvents delivers a refresh: glfw_refresh_callback calls draw()
\* (caller = "refresh"); or it returns, tick() does nothing, and run calls
\* draw() (caller = "run")
EnterDraw(caller) ==
    /\ unit = "application" /\ pc = "poll"
    /\ draw_caller' = caller
    /\ pc' = "draw_reset_image_fence"
    /\ UNCHANGED <<unit, should_close, swapVars, recordVars, image_state,
                   m_next_image_ready, acquired_image, acquire_result, m_command_fences,
                   m_command_buffers, m_uniform_buffers, ubo_data, draw_i,
                   gpu_queue, tearVars>>
    /\ UNCHANGED <<chainVars, reportVars, extVars, gltfVars, mainVars, memVars, uploadVars, selVars>>

PollRefresh == EnterDraw("refresh")
PollReturn == EnterDraw("run")

\* m_device.resetFences(m_next_image_ready)
DrawResetImageFence ==
    /\ pc = "draw_reset_image_fence"
    /\ m_next_image_ready' = "unsignaled"
    /\ pc' = "draw_acquire"
    /\ UNCHANGED <<unit, draw_caller, should_close, swapVars, recordVars, image_state,
                   acquired_image, acquire_result, m_command_fences, m_command_buffers,
                   m_uniform_buffers, ubo_data, draw_i, gpu_queue, tearVars>>
    /\ UNCHANGED <<chainVars, reportVars, extVars, gltfVars, mainVars, memVars, uploadVars, selVars>>

\* The results with which acquireNextImageKHR returns an image.  Of
\* vk::ResultValue<uint32_t> draw() takes .value and drops .result.
AcquireSuccessCodes == {"eSuccess", "eSuboptimalKHR"}

\* acquireNextImageKHR(m_swap_chain, infinite_wait, Semaphore(), m_next_image_ready):
\* returns the index of an image the presentation engine does not hold; the
\* fence is signaled when the image may be used
DrawAcquire ==
    /\ pc = "draw_acquire"
    /\ \E image \in Images :
          /\ image_state[image] = "free"
          /\ acquired_image' = image
          /\ image_state' = [image_state EXCEPT ![image] = "acquired"]
    /\ acquire_result' \in AcquireSuccessCodes
    /\ m_next_image_ready' = "pending"
    /\ pc' = "draw_wait_fence"
    /\ UNCHANGED <<unit, draw_caller, should_close, swapVars, recordVars, m_command_fences,
                   m_command_buffers, m_uniform_buffers, ubo_data, draw_i,
                   gpu_queue, tearVars>>
    /\ UNCHANGED <<chainVars, reportVars, extVars, gltfVars, mainVars, memVars, uploadVars, selVars>>

\* acquireNextImageKHR fails (out of date, surface lost): the vk::Error
\* leaves draw and run for the handlers of main; cleanup is not run.  From
\* the refresh callback the exception has to pass the frames of
\* glfwPollEvents, a C library, which is undefined: it passes them, or the
\* unwinder finds no way through them and calls std::terminate.
DrawAcquireThrows ==
    /\ pc = "draw_acquire"
    /\ error' = VkError("vk::Device::acquireNextImageKHR")
    /\ pc' \in IF draw_caller = "refresh"
               THEN {"terminated", "std_terminate"} ELSE {"terminated"}
    /\ UNCHANGED <<unit, draw_caller, should_close, swapVars, recordVars, image_state,
                   m_next_image_ready, acquired_image, acquire_result, m_command_fences,
                   m_command_buffers, m_uniform_buffers, ubo_data, draw_i,
                   gpu_queue, tearVars>>
    /\ UNCHANGED <<chainVars, reportVars, extVars, gltfVars, mainVars, memVars, uploadVars, handleVars, vk_pc, enumerated, m_physical_device,
                   m_queue_family_index, m_queue, select_calls>>

\* m_device.waitForFences(command_fence, VK_FALSE, infinite_wait)
DrawWaitFence ==
    /\ pc = "draw_wait_fence"
    /\ FenceWaitReturns(m_command_fences[CommandSlot(acquired_image)])
    /\ pc' = "draw_reset_fence"
    /\ UNCHANGED <<unit, draw_caller, should_close, swapVars, recordVars, image_state,
                   m_next_image_ready, acquired_image, acquire_result, m_command_fences,
                   m_command_buffers, m_uniform_buffers, ubo_data, draw_i,
                   gpu_queue, tearVars>>
    /\ UNCHANGED <<chainVars, reportVars, extVars, gltfVars, mainVars, memVars, uploadVars, selVars>>

\* m_device.resetFences(command_fence)
DrawResetFence ==
    /\ pc = "draw_reset_fence"
    /\ m_command_fences' =
           [m_command_fences EXCEPT ![CommandSlot(acquired_image)] = "unsignaled"]
    /\ pc' = "draw_reset_command_buffer"
    /\ UNCHANGED <<unit, draw_caller, should_close, swapVars, recordVars, image_state,
                   m_next_image_ready, acquired_image, acquire_result, m_command_buffers,
                   m_uniform_buffers, ubo_data, draw_i, gpu_queue, tearVars>>
    /\ UNCHANGED <<chainVars, reportVars, extVars, gltfVars, mainVars, memVars, uploadVars, selVars>>

\* command_buffer.reset(...)
DrawResetCommandBuffer ==
    /\ pc = "draw_reset_command_buffer"
    /\ m_command_buffers' =
           [m_command_buffers EXCEPT ![CommandSlot(acquired_image)] = "initial"]
    /\ pc' = "draw_begin"
    /\ UNCHANGED <<unit, draw_caller, should_close, swapVars, recordVars, image_state,
                   m_next_image_ready, acquired_image, acquire_result, m_command_fences,
                   m_uniform_buffers, ubo_data, draw_i, gpu_queue, tearVars>>
    /\ UNCHANGED <<chainVars, reportVars, extVars, gltfVars, mainVars, memVars, uploadVars, selVars>>

\* command_buffer.begin, beginRenderPass, bindPipeline, and
\* ubo_data = mapMemory(uniform_buffer.device_memory, ...), ubo_offset = 0
DrawBegin ==
    /\ pc = "draw_begin"
    /\ m_command_buffers' =
           [m_command_buffers EXCEPT ![CommandSlot(acquired_image)] = "recording"]
    /\ ubo_data' = UniformBufferOf(acquired_image)
    /\ ubo_offset' = 0
    /\ recorded_draws' = <<>>
    /\ draw_i' = 0
    /\ pc' = "draw_record"
    /\ UNCHANGED <<unit, draw_caller, should_close, swapVars, image_state,
                   m_next_image_ready, acquired_image, acquire_result, m_command_fences,
                   m_uniform_buffers, gpu_queue, tearVars>>
    /\ UNCHANGED <<chainVars, reportVars, extVars, gltfVars, mainVars, memVars, uploadVars, selVars>>

\* one pass of for (draw_record& d : m_draws): the transform is written
\* through ubo_data and the draw is recorded
DrawRecord ==
    /\ pc = "draw_record"
    /\ draw_i < draw_count
    /\ m_uniform_buffers' =
           [m_uniform_buffers EXCEPT ![ubo_data] = IF @ > draw_i THEN @ ELSE draw_i + 1]
    /\ recorded_draws' = Append(recorded_draws, RecordedDraw(m_draws[draw_i + 1], ubo_offset))
    /\ ubo_offset' = align_up(ubo_offset + SizeofMat4, m_ubo_min_field_align)
    /\ draw_i' = draw_i + 1
    /\ UNCHANGED <<unit, pc, draw_caller, should_close, swapVars, image_state,
                   m_next_image_ready, acquired_image, acquire_result, m_command_fences,
                   m_command_buffers, ubo_data, gpu_queue, tearVars>>
    /\ UNCHANGED <<chainVars, reportVars, extVars, gltfVars, mainVars, memVars, uploadVars, selVars>>

\* the loop is done: unmapMemory, endRenderPass, command_buffer.end
DrawEnd ==
    /\ pc = "draw_record"
    /\ draw_i = draw_count
    /\ ubo_data' = NoImage
    /\ m_command_buffers' =
           [m_command_buffers EXCEPT ![CommandSlot(acquired_image)] = "executable"]
    /\ pc' = "draw_wait_image"
    /\ UNCHANGED <<unit, draw_caller, should_close, swapVars, recordVars, image_state,
                   m_next_image_ready, acquired_image, acquire_result, m_command_fences,
                   m_uniform_buffers, draw_i, gpu_queue, tearVars>>
    /\ UNCHANGED <<chainVars, reportVars, extVars, gltfVars, mainVars, memVars, uploadVars, selVars>>

\* m_device.waitForFences(m_next_image_ready, VK_FALSE, infinite_wait)
DrawWaitImage ==
    /\ pc = "draw_wait_image"
    /\ FenceWaitReturns(m_next_image_ready)
    /\ pc' = "draw_submit"
    /\ UNCHANGED <<unit, draw_caller, should_close, swapVars, recordVars, image_state,
                   m_next_image_ready, acquired_image, acquire_result, m_command_fences,
                   m_command_buffers, m_uniform_buffers, ubo_data, draw_i,
                   gpu_queue, tearVars>>
    /\ UNCHANGED <<chainVars, reportVars, extVars, gltfVars, mainVars, memVars, uploadVars, selVars>>

\* m_queue.submit(submit_info, command_fence)
DrawSubmit ==
    /\ pc = "draw_submit"
    /\ gpu_queue' = Append(gpu_queue, Submission(acquired_image))
    /\ m_command_buffers' =
           [m_command_buffers EXCEPT ![CommandSlot(acquired_image)] = "pending"]
    /\ pc' = "draw_present"
    /\ UNCHANGED <<unit, draw_caller, should_close, swapVars, recordVars, image_state,
                   m_next_image_ready, acquired_image, acquire_result, m_command_fences,
                   m_uniform_buffers, ubo_data, draw_i, tearVars>>
    /\ UNCHANGED <<chainVars, reportVars, extVars, gltfVars, mainVars, memVars, uploadVars, selVars>>

\* m_queue.presentKHR(present_info), with no semaphore to wait on; draw()
\* returns to its caller
DrawPresent ==
    /\ pc = "draw_present"
    /\ image_state' = [image_state EXCEPT ![PresentImageIndex(acquired_image)] = "presented"]
    /\ acquired_image' = NoImage
    /\ acquire_result' = "none"
    /\ draw_i' = 0
    /\ pc' = IF draw_caller = "refresh" THEN "poll" ELSE "run_while"
    /\ UNCHANGED <<unit, draw_caller, should_close, swapVars, recordVars,
                   m_next_image_ready, m_command_fences, m_command_buffers,
                   m_uniform_buffers, ubo_data, gpu_queue, tearVars>>
    /\ UNCHANGED <<chainVars, reportVars, extVars, gltfVars, mainVars, memVars, uploadVars, selVars>>

\* The GPU finishes the oldest submission: its fence is signaled and its
\* one-time-submit command buffer becomes invalid.
GpuComplete ==
    /\ gpu_queue # <<>>
    /\ LET done == Head(gpu_queue) IN
          /\ m_command_fences' = [m_command_fences EXCEPT ![done.fence] = "signaled"]
          /\ m_command_buffers' =
                 [m_command_buffers EXCEPT ![done.command_buffer] = "invalid"]
    /\ gpu_queue' = Tail(gpu_queue)
    /\ UNCHANGED <<unit, pc, draw_caller, should_close, swapVars, recordVars, image_state,
                   m_next_image_ready, acquired_image, acquire_result, m_uniform_buffers,
                   ubo_data, draw_i, tearVars>>
    /\ UNCHANGED <<chainVars, reportVars, extVars, gltfVars, mainVars, memVars, uploadVars, selVars>>

\* The presentation engine makes the acquired image available: the acquire
\* fence is signaled.
PresentationImageReady ==
    /\ m_next_image_ready = "pending"
    /\ m_next_image_ready' = "signaled"
    /\ UNCHANGED <<unit, pc, draw_caller, should_close, swapVars, recordVars, image_state,
                   acquired_image, acquire_result, m_command_fences, m_command_buffers,
                   m_uniform_buffers, ubo_data, draw_i, gpu_queue, tearVars>>
    /\ UNCHANGED <<chainVars, reportVars, extVars, gltfVars, mainVars, memVars, uploadVars, selVars>>

\* The presentation engine lets go of a presented image.
PresentationRelease ==
    /\ m_swap_chain
    /\ \E image \in Images :
          /\ image_state[image] = "presented"
          /\ image_state' = [image_state EXCEPT ![image] = "free"]
    /\ UNCHANGED <<unit, pc, draw_caller, should_close, swapVars, recordVars,
                   m_next_image_ready, acquired_image, acquire_result, m_command_fences,
                   m_command_buffers, m_uniform_buffers, ubo_data, draw_i,
                   gpu_queue, tearVars>>
    /\ UNCHANGED <<chainVars, reportVars, extVars, gltfVars, mainVars, memVars, uploadVars, selVars>>

\* ------------------------------------------------------------------------
\* Teardown: application::cleanup, graphics::impl::~impl
\* ------------------------------------------------------------------------
\* the statements of application::cleanup, in order
cleanup_calls ==
    <<"waitIdle", "textures_cleanup", "static_buffers_cleanup", "pipeline_cleanup",
      "per_frame_cleanup", "sampler_cleanup", "render_pass_cleanup",
      "shaders_cleanup", "vk_cleanup", "glfw_cleanup">>

\* what application::vk_cleanup destroys, in order (and a variant that
\* destroys the device ahead of the swap chain)
vk_cleanup_device_first ==
    <<"m_next_image_ready", "m_swap_chain_depth_images", "m_swap_chain_color_images",
      "m_device", "m_swap_chain", "m_surface", "m_debug_report_callback", "m_instance">>
vk_cleanup_destroys ==
    <<"m_next_image_ready", "m_swap_chain_depth_images", "m_swap_chain_color_images",
      "m_swap_chain", "m_device", "m_surface", "m_debug_report_callback", "m_instance">>

\* what graphics::impl::~impl destroys, in order
impl_destroys ==
    <<"m_swap_chain", "m_device", "m_surface", "m_debug_report_callback", "m_instance">>

\* application::cleanup with its call of vk_cleanup unfolded
ApplicationTeardown ==
    LET k == CHOOSE j \in DOMAIN cleanup_calls : cleanup_calls[j] = "vk_cleanup"
    IN SubSeq(cleanup_calls, 1, k - 1) \o vk_cleanup_destroys
           \o SubSeq(cleanup_calls, k + 1, Len(cleanup_calls))

\* The objects application::init creates from m_device (vk_create_device_objects,
\* vk_create_swap_chain, shaders_init, render_pass_init, sampler_init,
\* per_frame_init, pipeline_init, gltf_load), and the one graphics::impl::impl
\* creates.
CreatedDeviceObjects ==
    IF unit = "application"
    THEN {"m_command_pool", "m_swap_chain", "m_swap_chain_color_images",
          "m_swap_chain_depth_images", "m_next_image_ready",
          "m_simple_vert", "m_simple_frag",
          "m_simple_render_pass", "m_simple_framebuffers",
          "m_bilinear_sampler",
          "m_command_buffers", "m_uniform_buffers", "m_mutable_descriptor_pool",
          "m_command_fences",
          "m_simple_mutable_set_layout", "m_simple_immutable_set_layout",
          "m_simple_pipeline_layout", "m_simple_mutable_sets", "m_simple_pipeline",
          "m_immutable_descriptor_pool", "m_static_buffers", "m_textures"}
    ELSE IF unit = "graphics_impl" THEN {"m_swap_chain"}
    ELSE {}

\* what one teardown step destroys of them (and a variant of
\* per_frame_cleanup that leaves the command pool)
DestroyedByKeepingPool(step) ==
    CASE step = "textures_cleanup" -> {"m_immutable_descriptor_pool", "m_textures"}
      [] step = "static_buffers_cleanup" -> {"m_static_buffers"}
      [] step = "pipeline_cleanup" ->
             {"m_simple_pipeline", "m_simple_pipeline_layout",
              "m_simple_mutable_set_layout", "m_simple_immutable_set_layout"}
      [] step = "per_frame_cleanup" ->
             {"m_command_fences", "m_mutable_descriptor_pool", "m_simple_mutable_sets",
              "m_uniform_buffers", "m_command_buffers"}
      [] step = "sampler_cleanup" -> {"m_bilinear_sampler"}
      [] step = "render_pass_cleanup" -> {"m_simple_framebuffers", "m_simple_render_pass"}
      [] step = "shaders_cleanup" -> {"m_simple_frag", "m_simple_vert"}
      [] step \in {"m_next_image_ready", "m_swap_chain_depth_images",
                   "m_swap_chain_color_images", "m_swap_chain"} -> {step}
      [] OTHER -> {}
DestroyedBy(step) ==
    CASE step = "textures_cleanup" -> {"m_immutable_descriptor_pool", "m_textures"}
      [] step = "static_buffers_cleanup" -> {"m_static_buffers"}
      [] step = "pipeline_cleanup" ->
             {"m_simple_pipeline", "m_simple_pipeline_layout",
              "m_simple_mutable_set_layout", "m_simple_immutable_set_layout"}
      [] step = "per_frame_cleanup" ->
             {"m_command_fences", "m_mutable_descriptor_pool", "m_simple_mutable_sets",
              "m_uniform_buffers", "m_command_buffers", "m_command_pool"}
      [] step = "sampler_cleanup" -> {"m_bilinear_sampler"}
      [] step = "render_pass_cleanup" -> {"m_simple_framebuffers", "m_simple_render_pass"}
      [] step = "shaders_cleanup" -> {"m_simple_frag", "m_simple_vert"}
      [] step \in {"m_next_image_ready", "m_swap_chain_depth_images",
                   "m_swap_chain_color_images", "m_swap_chain"} -> {step}
      [] OTHER -> {}

\* the objects created from the device that teardown has not destroyed yet
LiveDeviceObjects ==
    CreatedDeviceObjects \ UNION {DestroyedBy(teardown_log[i]) : i \in DOMAIN teardown_log}

\* the effect of one teardown step on the handles
TeardownEffect(step) ==
    /\ m_swap_chain' = IF step = "m_swap_chain" THEN FALSE ELSE m_swap_chain
    /\ m_device' = IF step = "m_device" THEN FALSE ELSE m_device
    /\ m_surface' = IF step = "m_surface" THEN FALSE ELSE m_surface
    /\ m_instance' = IF step = "m_instance" THEN FALSE ELSE m_instance
    /\ m_command_pool' = IF step = "per_frame_cleanup" THEN FALSE ELSE m_command_pool
    /\ m_command_fences' = IF step = "per_frame_cleanup"
                           THEN [i \in Images |-> "destroyed"] ELSE m_command_fences
    /\ m_command_buffers' = IF step = "per_frame_cleanup"
                            THEN [i \in Images |-> "freed"] ELSE m_command_buffers
    /\ m_next_image_ready' = IF step = "m_next_image_ready"
                             THEN "destroyed" ELSE m_next_image_ready

\* a stored resource is a texture (m_textures) or a buffer (m_static_buffers)
IsTexture(resource) == resource.layout # "none"

\* textures_cleanup destroys the immutable descriptor pool and, by
\* cleanup_device_image, view, image and memory of every texture;
\* static_buffers_cleanup, by cleanup_device_buffer, buffer and memory of
\* every static buffer (and a variant whose textures_cleanup takes the
\* buffers too)
StaticCleanupBuffersTwice(step, resources) ==
    [i \in DOMAIN resources |->
        IF step \in {"textures_cleanup", "static_buffers_cleanup"}
        THEN [resources[i] EXCEPT !.object = FALSE, !.device_memory = FALSE,
                                  !.bound = FALSE,
                                  !.data = IF resources[i].object THEN @ ELSE <<>>]
        ELSE resources[i]]
StaticCleanup(step, resources) ==
    [i \in DOMAIN resources |->
        IF \/ step = "textures_cleanup" /\ IsTexture(resources[i])
           \/ step = "static_buffers_cleanup" /\ ~IsTexture(resources[i])
        THEN [resources[i] EXCEPT !.object = FALSE, !.device_memory = FALSE,
                                  !.bound = FALSE,
                                  !.data = IF resources[i].object THEN @ ELSE <<>>]
        ELSE resources[i]]

\* One statement of application::cleanup (of vk_cleanup inside it).
\* if (m_device) m_device.waitIdle() returns when the GPU has nothing left.
CleanupStep ==
    /\ unit = "application" /\ pc = "cleanup"
    /\ teardown_i <= Len(ApplicationTeardown)
    /\ LET step == ApplicationTeardown[teardown_i] IN
          /\ (step = "waitIdle" /\ m_device) => gpu_queue = <<>>
          /\ teardown_log' = IF step = "waitIdle" /\ ~m_device
                             THEN teardown_log ELSE Append(teardown_log, step)
          /\ TeardownEffect(step)
          /\ m_static_resources' = StaticCleanup(step, m_static_resources)
    /\ teardown_i' = teardown_i + 1
    /\ UNCHANGED <<unit, pc, draw_caller, should_close, swapVars, recordVars, image_state,
                   acquired_image, acquire_result, m_uniform_buffers, ubo_data, draw_i, gpu_queue>>
    /\ UNCHANGED <<up_pc, up_kind, payload, staging_buffer, optimized, copy_command_buffer>>
    /\ UNCHANGED <<chainVars, reportVars, extVars, gltfVars, mainVars, memVars, selRest>>

\* cleanup is done; run returns EXIT_SUCCESS
CleanupReturn ==
    /\ unit = "application" /\ pc = "cleanup"
    /\ teardown_i > Len(ApplicationTeardown)
    /\ pc' = "exit"
    /\ UNCHANGED <<unit, draw_caller, should_close, swapVars, recordVars, image_state,
                   m_next_image_ready, acquired_image, acquire_result, m_command_fences,
                   m_command_buffers, m_uniform_buffers, ubo_data, draw_i,
                   gpu_queue, tearVars>>
    /\ UNCHANGED <<chainVars, reportVars, extVars, gltfVars, mainVars, memVars, uploadVars, selVars>>

\* One statement of graphics::impl::~impl; there is no idle wait in it.
ImplDestructorStep ==
    /\ unit = "graphics_impl" /\ pc = "impl_alive"
    /\ teardown_i <= Len(impl_destroys)
    /\ LET step == impl_destroys[teardown_i] IN
          /\ teardown_log' = Append(teardown_log, step)
          /\ TeardownEffect(step)
    /\ teardown_i' = teardown_i + 1
    /\ pc' = IF teardown_i = Len(impl_destroys) THEN "impl_destroyed" ELSE pc
    /\ UNCHANGED <<unit, draw_caller, should_close, swapVars, recordVars, image_state,
                   acquired_image, acquire_result, m_uniform_buffers, ubo_data, draw_i, gpu_queue>>
    /\ UNCHANGED <<chainVars, reportVars, extVars, gltfVars, mainVars, memVars, uploadVars, selRest>>

\* ------------------------------------------------------------------------
\* main and error::handle_exception
\* ------------------------------------------------------------------------
\* vk_create_swap_chain is not looked at
ChainIdle ==
    /\ chain_pc = "off"
    /\ swap_chain_color_images = 0
    /\ m_swap_chain_color_images = 0
    /\ m_swap_chain_depth_images = <<>>
    /\ layout_command_buffer = [state |-> "none", commands |-> <<>>]

\* int ret_val = EXIT_FAILURE; nothing is logged
MainRunning ==
    /\ ret_val = "EXIT_FAILURE"
    /\ exception_log = "none"

\* ------------------------------------------------------------------------
\* The debug report callbacks: application::vk_debug_report,
\* graphics::impl::debug_report_stub and debug_report
\* ------------------------------------------------------------------------
\* VkDebugReportObjectTypeEXT, the type of the callback's object_type
VkDebugReportObjectTypeEXT ==
    [eInstance |-> 1, eCommandPool |-> 25, eSurfaceKhr |-> 26, eSwapchainKhr |-> 27]

\* vk::to_string(vk::ObjectType): VkObjectType has the values of
\* VkDebugReportObjectTypeEXT up to 25 and other ones for the extension
\* objects (eSurfaceKHR is 1000000000, eSwapchainKHR 1000001000)
ObjectTypeToString(value) ==
    CASE value = 1 -> "Instance"
      [] value = 25 -> "CommandPool"
      [] value = 1000000000 -> "SurfaceKHR"
      [] value = 1000001000 -> "SwapchainKHR"
      [] OTHER -> "invalid"

\* the reports of the validation layer
DebugReportFlagBits == {"eInformation", "eWarning", "eError"}
DebugReports ==
    [flags : SUBSET DebugReportFlagBits,
     object_type : {VkDebugReportObjectTypeEXT[n] : n \in DOMAIN VkDebugReportObjectTypeEXT},
     object : {1, 2},
     message : {"vkQueueSubmit: invalid fence", "vkCmdDraw: no pipeline bound"}]

NoReport == [flags |-> {}, object_type |-> 0, object |-> 0, message |-> ""]

ReportIdle ==
    /\ debug_report = NoReport
    /\ raised = NoError
    /\ callback_result = "none"
    /\ ChainIdle
    /\ ExtIdle /\ GltfIdle

\* What a handler reads through a const char* stored in the exception.
\* errinfo_..._object_type holds the c_str() of a temporary std::string,
\* gone when the throw statement is left, and errinfo_..._message holds the
\* layer's own pointer, good for the time of the callback: the read is
\* undefined and yields the text or anything else.
ReadAfterThrow(text) == {text, "<dangling>"}

\* the callback: if (flags & VK_DEBUG_REPORT_ERROR_BIT_EXT)
\* BOOST_THROW_EXCEPTION(vk_debug_report_error() << ...); return (VK_FALSE)
DebugReportCallback ==
    /\ callback_result = "none"
    /\ IF "eError" \in debug_report.flags
       THEN /\ \E type_text \in ReadAfterThrow(ObjectTypeToString(debug_report.object_type)),
                  message_text \in ReadAfterThrow(debug_report.message) :
                  raised' = [type |-> "vk_debug_report_error",
                             object_type |-> type_text,
                             object |-> debug_report.object,
                             message |-> message_text]
            /\ callback_result' = "thrown"
       ELSE /\ raised' = NoError
            /\ callback_result' = "VK_FALSE"
    /\ UNCHANGED <<debug_report, extVars, gltfVars, chainVars, mainVars, memVars, selVars, frameVars, uploadVars>>

\* application::vk_debug_report and graphics::impl::debug_report_stub
VkDebugReport == unit = "application" /\ DebugReportCallback
DebugReportStub == unit = "graphics_impl" /\ DebugReportCallback

NextReport == VkDebugReport \/ DebugReportStub

\* ret_val = gtb::application::get()->run(argc, argv); return (ret_val)
MainRunReturns ==
    /\ unit = "application" /\ pc = "exit"
    /\ ret_val' = "EXIT_SUCCESS"
    /\ pc' = "main_returned"
    /\ UNCHANGED <<exception_log, unit, draw_caller, should_close, swapVars, recordVars,
                   image_state, m_next_image_ready, acquired_image, acquire_result, m_command_fences,
                   m_command_buffers, m_uniform_buffers, ubo_data, draw_i,
                   gpu_queue, tearVars>>
    /\ UNCHANGED <<chainVars, reportVars, extVars, gltfVars, memVars, uploadVars, selVars>>

\* what open_log_stream does inside handle_exception: the stream is open;
\* log_stream.open fails and is_open() is false; or
\* boost::filesystem::create_directories throws (or getenv("LOCALAPPDATA")
\* is null), in a handler of main with no try around it: std::terminate
LogOutcomes == {"written", "unopened", "throws"}

\* catch (...) { ret_val = gtb::error::handle_exception(e); } return (ret_val)
MainCatch ==
    /\ unit = "application" /\ pc = "terminated"
    /\ \E outcome \in LogOutcomes :
          IF outcome = "throws"
          THEN /\ pc' = "std_terminate"
               /\ UNCHANGED <<ret_val, exception_log>>
          ELSE /\ exception_log' = outcome
               /\ ret_val' = "EXIT_FAILURE"
               /\ pc' = "main_returned"
    /\ UNCHANGED <<unit, draw_caller, should_close, swapVars, recordVars,
                   image_state, m_next_image_ready, acquired_image, acquire_result, m_command_fences,
                   m_command_buffers, m_uniform_buffers, ubo_data, draw_i,
                   gpu_queue, tearVars>>
    /\ UNCHANGED <<chainVars, reportVars, extVars, gltfVars, memVars, uploadVars, selVars>>

NextFrame ==
    \/ RunWhile
    \/ PollKey
    \/ PollRefresh
    \/ PollReturn
    \/ DrawResetImageFence
    \/ DrawAcquire
    \/ DrawAcquireThrows
    \/ DrawWaitFence
    \/ DrawResetFence
    \/ DrawResetCommandBuffer
    \/ DrawBegin
    \/ DrawRecord
    \/ DrawEnd
    \/ DrawWaitImage
    \/ DrawSubmit
    \/ DrawPresent
    \/ GpuComplete
    \/ PresentationImageReady
    \/ PresentationRelease
    \/ CleanupStep
    \/ CleanupReturn
    \/ ImplDestructorStep
    \/ MainRunReturns
    \/ MainCatch

\* ------------------------------------------------------------------------
\* Uploads: create_static_buffer, create_texture
\* ------------------------------------------------------------------------
Bytes == {0, 1}

\* the byte sequences of one mip level (of one buffer)
LevelData == UNION {[1 .. n -> Bytes] : n \in 1 .. MaxBytes}

\* data/sizeof_data of create_static_buffer: one sequence of bytes
BufferPayloads == {<<d>> : d \in LevelData}

\* gli_texture: the mip levels, laid out one after the other in data()
TexturePayloads == UNION {[1 .. n -> LevelData] : n \in 1 .. MaxLevels}

RECURSIVE Concat(_)
Concat(seqs) == IF seqs = <<>> THEN <<>> ELSE Head(seqs) \o Concat(Tail(seqs))

\* no handle (a default-constructed device_buffer / device_image).  layout
\* is the layout of an image ("none" for a buffer), bound tells that a
\* descriptor set refers to the view of the image.
NoResource ==
    [object |-> FALSE, device_memory |-> FALSE, data |-> <<>>,
     layout |-> "none", bound |-> FALSE]

\* the memory types of the devices an upload is run on: host-visible and
\* device-local, host-visible only, device-local only
UploadMemoryTables ==
    {<<{HostVisible, HostCoherent}, {DeviceLocal}>>,
     <<{HostVisible, HostCoherent}>>,
     <<{DeviceLocal}>>}

\* get_memory_type as a function of its arguments; NoIndex when it throws
RECURSIVE GetMemoryTypeResult(_, _, _)
GetMemoryTypeResult(table, allowed, desired) ==
    IF ~BitScanForwardFound(allowed) THEN NoIndex
    ELSE LET i == BitScanForwardIndex(allowed) IN
         IF PropertiesMatch(table[i], desired) THEN i
         ELSE GetMemoryTypeResult(table, NextAllowed(allowed, i), desired)

\* memoryTypeBits of the requirements of a buffer or image: every type
MemoryTypeBits == Pow2(TypeCount(m_memory_properties)) - 1

UploadIdle ==
    /\ up_pc = "off"
    /\ up_kind = "none"
    /\ payload = <<>>
    /\ staging_buffer = NoResource
    /\ optimized = NoResource
    /\ copy_command_buffer = "none"
    /\ m_static_resources = <<>>

\* init() has reached a call of create_static_buffer or create_texture.
\* m_memory_properties is indexed from 0 as memoryTypes[] is.
InitUploadCall ==
    /\ up_pc = "start"
    /\ up_kind \in {"buffer", "texture"}
    /\ payload \in IF up_kind = "buffer" THEN BufferPayloads ELSE TexturePayloads
    /\ staging_buffer = NoResource
    /\ optimized = NoResource
    /\ copy_command_buffer = "none"
    /\ m_static_resources = <<>>

MemForUpload ==
    /\ \E t \in UploadMemoryTables :
          m_memory_properties = [i \in 0 .. (Len(t) - 1) |-> t[i + 1]]
    /\ desired_memory_properties = {}
    /\ requested_types = 0
    /\ allowed_types = 0
    /\ mem_type = 0
    /\ mt_pc = "off"
    /\ mt_result = NoIndex

upRest == <<handleVars, vk_pc, enumerated, m_physical_device, m_queue_family_index,
            m_queue, select_calls>>

\* An exception leaves the upload, init and run and is caught in main.
UploadThrow(e) ==
    /\ error' = e
    /\ up_pc' = "failed"

FileError(f) == [type |-> "file_exception", description |-> f]

\* create_device_buffer / the image creation in create_texture: the object
\* is created first, then get_memory_type and allocateMemory may throw, and
\* the object made so far is left behind.  Yields the resource and the
\* exception (NoError when there is none); data is what the memory holds.
CreateResource(desired, allocates, data) ==
    IF GetMemoryTypeResult(m_memory_properties, MemoryTypeBits, desired) = NoIndex
    THEN [resource |-> [NoResource EXCEPT !.object = TRUE],
          error |-> CapabilityError("Could not find needed memory type.")]
    ELSE IF ~allocates
    THEN [resource |-> [NoResource EXCEPT !.object = TRUE],
          error |-> VkError("vk::Device::allocateMemory")]
    ELSE [resource |-> [NoResource EXCEPT !.object = TRUE, !.device_memory = TRUE,
                                          !.data = data],
          error |-> NoError]

\* gli::load yields an empty texture: file_exception, ahead of any creation
UploadTextureLoadFails ==
    /\ up_pc = "start" /\ up_kind = "texture"
    /\ UploadThrow(FileError("gli::load"))
    /\ UNCHANGED <<up_kind, payload, staging_buffer, optimized,
                   copy_command_buffer, m_static_resources>>
    /\ UNCHANGED <<chainVars, reportVars, extVars, gltfVars, mainVars, memVars, frameVars, upRest>>

\* device_buffer staging_buffer = create_device_buffer(eTransferSrc, size,
\* staging_memory_properties)
UploadCreateStaging ==
    /\ up_pc = "start"
    /\ \E allocates \in BOOLEAN :
          LET r == CreateResource(staging_memory_properties, allocates, <<>>) IN
          /\ staging_buffer' = r.resource
          /\ IF r.error = NoError
             THEN up_pc' = "write_staging" /\ UNCHANGED error
             ELSE UploadThrow(r.error)
    /\ UNCHANGED <<up_kind, payload, optimized, copy_command_buffer,
                   m_static_resources>>
    /\ UNCHANGED <<chainVars, reportVars, extVars, gltfVars, mainVars, memVars, frameVars, upRest>>

\* mapMemory, memcpy(mapped_staging_memory, data, size), unmapMemory
UploadWriteStaging ==
    /\ up_pc = "write_staging"
    /\ staging_buffer' = [staging_buffer EXCEPT !.data = Concat(payload)]
    /\ up_pc' = "create_optimized"
    /\ UNCHANGED <<up_kind, payload, optimized, copy_command_buffer,
                   m_static_resources, error>>
    /\ UNCHANGED <<chainVars, reportVars, extVars, gltfVars, mainVars, memVars, frameVars, upRest>>

\* optimized_buffer = create_device_buffer(flags | eTransferDst, size,
\* optimized_memory_properties); createImage(mipLevels = levels), allocateMemory,
\* bindImageMemory, createImageView.  The new memory holds what it held
\* before: some byte in every place.  image_create_info.initialLayout is
\* eUndefined.
UploadCreateOptimized ==
    /\ up_pc = "create_optimized"
    /\ \E allocates \in BOOLEAN, fill \in Bytes :
          LET before == [l \in DOMAIN payload |-> [k \in DOMAIN payload[l] |-> fill]]
              r == CreateResource(optimized_memory_properties, allocates, before)
          IN /\ optimized' = [r.resource EXCEPT !.layout =
                                 IF up_kind = "texture" THEN "undefined" ELSE "none"]
             /\ IF r.error = NoError
                THEN up_pc' = "record" /\ UNCHANGED error
                ELSE UploadThrow(r.error)
    /\ UNCHANGED <<up_kind, payload, staging_buffer, copy_command_buffer,
                   m_static_resources>>
    /\ UNCHANGED <<chainVars, reportVars, extVars, gltfVars, mainVars, memVars, frameVars, upRest>>

\* create_one_time_command_buffer, and the copy (with its barriers) recorded
UploadRecord ==
    /\ up_pc = "record"
    /\ copy_command_buffer' = "recording"
    /\ up_pc' = "finish"
    /\ UNCHANGED <<up_kind, payload, staging_buffer, optimized,
                   m_static_resources, error>>
    /\ UNCHANGED <<chainVars, reportVars, extVars, gltfVars, mainVars, memVars, frameVars, upRest>>

\* finish_one_time_command_buffer: cmd_buffer.end, m_queue.submit
UploadSubmit ==
    /\ up_pc = "finish"
    /\ copy_command_buffer' = "pending"
    /\ up_pc' = "wait_idle"
    /\ UNCHANGED <<up_kind, payload, staging_buffer, optimized,
                   m_static_resources, error>>
    /\ UNCHANGED <<chainVars, reportVars, extVars, gltfVars, mainVars, memVars, frameVars, upRest>>

\* What the recorded copy writes.  copyBuffer: copy_region.size = sizeof_data
\* bytes from offset 0.  copyBufferToImage: one region, bufferOffset 0,
\* imageSubresource.mipLevel 0, the extent of the base level.
CopyResult(kind, source, destination) ==
    IF kind = "buffer"
    THEN <<SubSeq(source, 1, Len(destination[1]))>>
    ELSE [destination EXCEPT ![1] = SubSeq(source, 1, Len(destination[1]))]

\* pipelineBarrier with one vk::ImageMemoryBarrier
ImageMemoryBarrier(oldLayout, newLayout) ==
    [command |-> "pipelineBarrier", oldLayout |-> oldLayout, newLayout |-> newLayout]

\* The commands create_static_buffer and create_texture record into the
\* copy command buffer, in the order of the calls (and an order with the
\* end barrier recorded first).
CopyCommandsEndBarrierFirst(kind) ==
    IF kind = "buffer"
    THEN <<[command |-> "copyBuffer"]>>
    ELSE <<ImageMemoryBarrier("transfer_dst", "shader_read_only"),
           ImageMemoryBarrier("undefined", "transfer_dst"),
           [command |-> "copyBufferToImage", dstImageLayout |-> "transfer_dst"]>>
CopyCommands(kind) ==
    IF kind = "buffer"
    THEN <<[command |-> "copyBuffer"]>>
    ELSE <<ImageMemoryBarrier("undefined", "transfer_dst"),
           [command |-> "copyBufferToImage", dstImageLayout |-> "transfer_dst"],
           ImageMemoryBarrier("transfer_dst", "shader_read_only")>>

\* What one command does to the destination.  A barrier whose oldLayout is
\* neither eUndefined nor the layout of the image, and a copy into an image
\* that is not in dstImageLayout, are invalid and change nothing here.
ExecuteCommand(c, kind, source, destination) ==
    CASE c.command = "pipelineBarrier" ->
            IF c.oldLayout \in {"undefined", destination.layout}
            THEN [destination EXCEPT !.layout = c.newLayout]
            ELSE destination
      [] c.command = "copyBufferToImage" ->
            IF c.dstImageLayout = destination.layout
            THEN [destination EXCEPT !.data = CopyResult(kind, source, destination.data)]
            ELSE destination
      [] OTHER ->
            [destination EXCEPT !.data = CopyResult(kind, source, destination.data)]

RECURSIVE ExecuteCommands(_, _, _, _)
ExecuteCommands(commands, kind, source, destination) ==
    IF commands = <<>> THEN destination
    ELSE ExecuteCommands(Tail(commands), kind, source,
                         ExecuteCommand(Head(commands), kind, source, destination))

\* The GPU executes the submitted commands.  Were the staging memory freed
\* by then, the copy would read whatever is there.
UploadGpuCopy ==
    /\ copy_command_buffer = "pending"
    /\ \E fill \in Bytes :
          LET source == IF staging_buffer.device_memory THEN staging_buffer.data
                        ELSE [k \in 1 .. Len(Concat(payload)) |-> fill]
          IN optimized' = ExecuteCommands(CopyCommands(up_kind), up_kind, source, optimized)
    /\ copy_command_buffer' = "invalid"
    /\ UNCHANGED <<up_pc, up_kind, payload, staging_buffer, m_static_resources, error>>
    /\ UNCHANGED <<chainVars, reportVars, extVars, gltfVars, mainVars, memVars, frameVars, upRest>>

\* m_queue.waitIdle() returns when the queue has nothing left (and a
\* variant that returns at once)
QueueWaitIdleReturnsAtOnce(command_buffer) == TRUE
QueueWaitIdleReturns(command_buffer) == command_buffer # "pending"

\* finish_one_time_command_buffer: m_queue.waitIdle
UploadWaitIdle ==
    /\ up_pc = "wait_idle"
    /\ QueueWaitIdleReturns(copy_command_buffer)
    /\ up_pc' = "cleanup_command_buffer"
    /\ UNCHANGED <<up_kind, payload, staging_buffer, optimized,
                   copy_command_buffer, m_static_resources, error>>
    /\ UNCHANGED <<chainVars, reportVars, extVars, gltfVars, mainVars, memVars, frameVars, upRest>>

\* cleanup_one_time_command_buffer(copy_command_buffer).  Freeing a
\* command buffer the queue still holds is undefined: the copy may be
\* dropped or may still run.
UploadFreeCommandBuffer ==
    /\ up_pc = "cleanup_command_buffer"
    /\ copy_command_buffer' \in
           IF copy_command_buffer = "pending" THEN {"pending", "freed"} ELSE {"freed"}
    /\ up_pc' = "cleanup_staging"
    /\ UNCHANGED <<up_kind, payload, staging_buffer, optimized,
                   m_static_resources, error>>
    /\ UNCHANGED <<chainVars, reportVars, extVars, gltfVars, mainVars, memVars, frameVars, upRest>>

\* cleanup_device_buffer(staging_buffer)
UploadCleanupStaging ==
    /\ up_pc = "cleanup_staging"
    /\ staging_buffer' = NoResource
    /\ up_pc' = "return"
    /\ UNCHANGED <<up_kind, payload, optimized, copy_command_buffer,
                   m_static_resources, error>>
    /\ UNCHANGED <<chainVars, reportVars, extVars, gltfVars, mainVars, memVars, frameVars, upRest>>

\* return (m_static_buffers.emplace(end, optimized_buffer)) / m_textures
UploadReturn ==
    /\ up_pc = "return"
    /\ m_static_resources' = Append(m_static_resources, optimized)
    /\ up_pc' = "returned"
    /\ UNCHANGED <<up_kind, payload, staging_buffer, optimized,
                   copy_command_buffer, error>>
    /\ UNCHANGED <<chainVars, reportVars, extVars, gltfVars, mainVars, memVars, frameVars, upRest>>

\* the upload has returned and a texture is in its draw's descriptor set
UploadDone ==
    /\ up_pc = "returned"
    /\ up_kind = "texture" => m_static_resources[Len(m_static_resources)].bound

\* gltf_load_immutable_state, past create_texture: updateDescriptorSets
\* writes texture_image->view, with imageLayout eShaderReadOnlyOptimal, into
\* the immutable set of the draw
UpdateDescriptorSets ==
    /\ pc \in {"off", "init_assets"}
    /\ up_pc = "returned" /\ up_kind = "texture"
    /\ ~m_static_resources[Len(m_static_resources)].bound
    /\ m_static_resources' =
           [m_static_resources EXCEPT ![Len(m_static_resources)].bound = TRUE]
    /\ UNCHANGED <<up_pc, up_kind, payload, staging_buffer, optimized,
                   copy_command_buffer, error>>
    /\ UNCHANGED <<chainVars, reportVars, extVars, gltfVars, mainVars, memVars, frameVars, upRest>>

NextUpload ==
    \/ UploadTextureLoadFails
    \/ UploadCreateStaging
    \/ UploadWriteStaging
    \/ UploadCreateOptimized
    \/ UploadRecord
    \/ UploadSubmit
    \/ UploadGpuCopy
    \/ UploadWaitIdle
    \/ UploadFreeCommandBuffer
    \/ UploadCleanupStaging
    \/ UploadReturn
    \/ UpdateDescriptorSets

\* ------------------------------------------------------------------------
\* application::vk_create_swap_chain, from getSwapchainImagesKHR on: the
\* color views, the depth images and their layout command buffer
\* ------------------------------------------------------------------------
\* An exception leaves vk_create_swap_chain, vk_init, init and run.
ChainThrow(e) ==
    /\ error' = e
    /\ chain_pc' = "failed"

\* layout_barrier: oldLayout eUndefined, newLayout
\* eDepthStencilAttachmentOptimal (and a barrier to eGeneral)
DepthLayoutBarrierToGeneral == ImageMemoryBarrier("undefined", "general")
DepthLayoutBarrier == ImageMemoryBarrier("undefined", "depth_stencil_attachment")

\* layout_command_buffer = create_one_time_command_buffer(), the reserves
ChainBegin ==
    /\ chain_pc = "start"
    /\ layout_command_buffer' = [state |-> "recording", commands |-> <<>>]
    /\ chain_pc' = "loop"
    /\ UNCHANGED <<swap_chain_color_images, m_swap_chain_color_images,
                   m_swap_chain_depth_images, error>>
    /\ UNCHANGED <<reportVars, extVars, gltfVars, mainVars, memVars, frameVars, uploadVars, upRest>>

\* One pass of for (vk::Image &image : swap_chain_color_images): the color
\* view is made and emplaced; createImage, get_memory_type, allocateMemory,
\* bindImageMemory, createImageView make the depth image; its barrier is
\* recorded; the depth image is emplaced.  An exception of get_memory_type or
\* allocateMemory leaves before the barrier and the emplace_back.
ChainLoopStep ==
    /\ chain_pc = "loop"
    /\ m_swap_chain_color_images < swap_chain_color_images
    /\ m_swap_chain_color_images' = m_swap_chain_color_images + 1
    /\ \E allocates \in BOOLEAN :
          LET r == CreateResource(optimized_memory_properties, allocates, <<>>) IN
          IF r.error = NoError
          THEN /\ m_swap_chain_depth_images' =
                     Append(m_swap_chain_depth_images,
                            [r.resource EXCEPT !.layout = "undefined"])
               /\ layout_command_buffer' =
                     [layout_command_buffer EXCEPT !.commands =
                         Append(@, [image |-> Len(m_swap_chain_depth_images) + 1,
                                    barrier |-> DepthLayoutBarrier])]
               /\ UNCHANGED <<chain_pc, error>>
          ELSE /\ ChainThrow(r.error)
               /\ UNCHANGED <<m_swap_chain_depth_images, layout_command_buffer>>
    /\ UNCHANGED swap_chain_color_images
    /\ UNCHANGED <<reportVars, extVars, gltfVars, mainVars, memVars, frameVars, uploadVars, upRest>>

\* finish_one_time_command_buffer(layout_command_buffer): end, m_queue.submit
ChainSubmit ==
    /\ chain_pc = "loop"
    /\ m_swap_chain_color_images = swap_chain_color_images
    /\ layout_command_buffer' = [layout_command_buffer EXCEPT !.state = "pending"]
    /\ chain_pc' = "wait_idle"
    /\ UNCHANGED <<swap_chain_color_images, m_swap_chain_color_images,
                   m_swap_chain_depth_images, error>>
    /\ UNCHANGED <<reportVars, extVars, gltfVars, mainVars, memVars, frameVars, uploadVars, upRest>>

\* the depth images after the recorded barriers, each on its own image
RECURSIVE ExecuteLayoutCommands(_, _)
ExecuteLayoutCommands(commands, images) ==
    IF commands = <<>> THEN images
    ELSE LET c == Head(commands) IN
         ExecuteLayoutCommands(Tail(commands),
             [images EXCEPT ![c.image] = ExecuteCommand(c.barrier, "texture", <<>>, @)])

\* The GPU executes the submitted barriers.
ChainGpuLayout ==
    /\ layout_command_buffer.state = "pending"
    /\ m_swap_chain_depth_images' =
           ExecuteLayoutCommands(layout_command_buffer.commands, m_swap_chain_depth_images)
    /\ layout_command_buffer' = [layout_command_buffer EXCEPT !.state = "invalid"]
    /\ UNCHANGED <<chain_pc, swap_chain_color_images, m_swap_chain_color_images, error>>
    /\ UNCHANGED <<reportVars, extVars, gltfVars, mainVars, memVars, frameVars, uploadVars, upRest>>

\* finish_one_time_command_buffer: m_queue.waitIdle; then m_next_image_ready
\* is created signaled and vk_create_swap_chain returns
ChainWaitIdleAndReturn ==
    /\ chain_pc = "wait_idle"
    /\ QueueWaitIdleReturns(layout_command_buffer.state)
    /\ m_next_image_ready' = "signaled"
    /\ chain_pc' = "returned"
    /\ UNCHANGED <<swap_chain_color_images, m_swap_chain_color_images,
                   m_swap_chain_depth_images, layout_command_buffer, error>>
    /\ UNCHANGED <<unit, pc, draw_caller, should_close, swapVars, recordVars, tearVars,
                   image_state, acquired_image, acquire_result, m_command_fences, m_command_buffers,
                   m_uniform_buffers, ubo_data, draw_i, gpu_queue>>
    /\ UNCHANGED <<reportVars, extVars, gltfVars, mainVars, memVars, uploadVars, upRest>>

NextChain ==
    \/ ChainBegin
    \/ ChainLoopStep
    \/ ChainSubmit
    \/ ChainGpuLayout
    \/ ChainWaitIdleAndReturn

\* createSwapchainKHR has succeeded with minImageCount MinImageCount and
\* getSwapchainImagesKHR has returned at least as many images, on a device
\* with any memory types
InitChainCall ==
    /\ chain_pc = "start"
    /\ swap_chain_color_images \in MinImageCount .. MaxImages
    /\ m_swap_chain_color_images = 0
    /\ m_swap_chain_depth_images = <<>>
    /\ layout_command_buffer = [state |-> "none", commands |-> <<>>]
    /\ m_memory_properties \in MemoryTables
    /\ desired_memory_properties = {}
    /\ requested_types = 0
    /\ allowed_types = 0
    /\ mem_type = 0
    /\ mt_pc = "off"
    /\ mt_result = NoIndex

\* ------------------------------------------------------------------------
\* application::run from init's asset loading on: the uploads of
\* builtin_object_init and gltf_load, then the frame loop and cleanup
\* ------------------------------------------------------------------------
\* what one upload of the run carries
RunPayload(kind) == <<<<1>>>>

\* builtin_object_init / gltf_load call create_static_buffer or
\* create_texture once more
InitStartUpload ==
    /\ unit = "application" /\ pc = "init_assets"
    /\ up_pc = "off" \/ UploadDone
    /\ Len(m_static_resources) < MaxUploads
    /\ \E kind \in {"buffer", "texture"} :
          /\ up_kind' = kind
          /\ payload' = RunPayload(kind)
    /\ up_pc' = "start"
    /\ staging_buffer' = NoResource
    /\ optimized' = NoResource
    /\ copy_command_buffer' = "none"
    /\ UNCHANGED <<m_static_resources, memVars, selVars, frameVars, mainVars, reportVars, extVars, gltfVars, chainVars>>

\* the exception of an upload leaves init and run
InitThrows ==
    /\ unit = "application" /\ pc = "init_assets"
    /\ up_pc = "failed"
    /\ pc' = "terminated"
    /\ UNCHANGED <<unit, draw_caller, should_close, swapVars, recordVars, image_state,
                   m_next_image_ready, acquired_image, acquire_result, m_command_fences,
                   m_command_buffers, m_uniform_buffers, ubo_data, draw_i,
                   gpu_queue, tearVars>>
    /\ UNCHANGED <<chainVars, reportVars, extVars, gltfVars, mainVars, memVars, uploadVars, selVars>>

\* gltf_load ends with m_draws = load_state.draws; init returns and run is
\* at its while test
InitReturn ==
    /\ unit = "application" /\ pc = "init_assets"
    /\ UploadDone
    /\ \E n \in 0 .. 1 :
          /\ m_draws' = SceneDraws(n)
          /\ draw_count' = n
    /\ pc' = "run_while"
    /\ UNCHANGED <<unit, draw_caller, should_close, image_count, per_image_objects,
                   m_ubo_min_field_align, recordVars, image_state,
                   m_next_image_ready, acquired_image, acquire_result, m_command_fences,
                   m_command_buffers, m_uniform_buffers, ubo_data, draw_i,
                   gpu_queue, tearVars>>
    /\ UNCHANGED <<chainVars, reportVars, extVars, gltfVars, mainVars, memVars, uploadVars, selVars>>

\* init has run up to builtin_object_init: the per-frame objects exist,
\* nothing is uploaded, there are no draw records
InitAssets ==
    /\ unit = "application"
    /\ pc = "init_assets"
    /\ draw_caller = "run"
    /\ should_close = FALSE
    /\ image_count = MinImageCount
    /\ draw_count = 0
    /\ image_state = [i \in Images |-> "free"]
    /\ m_next_image_ready = "signaled"
    /\ acquired_image = NoImage
    /\ acquire_result = "none"
    /\ m_command_fences = [i \in PerFrameSlots(image_count) |-> CreatedFence]
    /\ m_command_buffers = [i \in PerFrameSlots(image_count) |-> "initial"]
    /\ m_uniform_buffers = [i \in PerFrameSlots(image_count) |-> 0]
    /\ ubo_data = NoImage
    /\ draw_i = 0
    /\ gpu_queue = <<>>
    /\ teardown_i = 1
    /\ teardown_log = <<>>
    /\ per_image_objects = PerImageObjects(image_count)
    /\ m_draws = <<>>
    /\ m_ubo_min_field_align = 256
    /\ ubo_offset = 0
    /\ recorded_draws = <<>>
    /\ UploadIdle
    /\ MemForUpload
    /\ SelReady
    /\ MainRunning
    /\ ReportIdle

NextRun ==
    \/ InitStartUpload
    \/ InitThrows
    \/ InitReturn
    \/ NextUpload
    \/ RunWhile
    \/ PollKey
    \/ PollRefresh
    \/ PollReturn
    \/ DrawResetImageFence
    \/ DrawAcquire
    \/ DrawAcquireThrows
    \/ DrawWaitFence
    \/ DrawResetFence
    \/ DrawResetCommandBuffer
    \/ DrawBegin
    \/ DrawRecord
    \/ DrawEnd
    \/ DrawWaitImage
    \/ DrawSubmit
    \/ DrawPresent
    \/ GpuComplete
    \/ PresentationImageReady
    \/ PresentationRelease
    \/ CleanupStep
    \/ CleanupReturn
    \/ MainRunReturns
    \/ MainCatch

SpecRun == InitAssets /\ [][NextRun]_vars

\* ------------------------------------------------------------------------
\* Specifications
\* ------------------------------------------------------------------------
InitMem ==
    InitMemCall /\ SelIdle /\ FrameIdle /\ UploadIdle /\ MainRunning /\ ReportIdle
SpecMem == InitMem /\ [][NextMem]_vars
SpecMemFair == SpecMem /\ WF_vars(NextMem)

InitSel ==
    InitSelect /\ MemIdle /\ FrameIdle /\ UploadIdle /\ MainRunning /\ ReportIdle
SpecSelect == InitSel /\ [][NextSelect]_vars

\* draw() is at command_buffer.begin in the first frame, on any scene and
\* any alignment
InitRecord ==
    /\ unit = "application"
    /\ pc = "draw_begin"
    /\ draw_caller = "run"
    /\ should_close = FALSE
    /\ image_count = MinImageCount
    /\ m_draws \in DrawLists
    /\ draw_count = Len(m_draws)
    /\ m_ubo_min_field_align \in UboAlignments
    /\ acquired_image \in Images
    /\ acquire_result \in AcquireSuccessCodes
    /\ image_state = [i \in Images |-> IF i = acquired_image THEN "acquired" ELSE "free"]
    /\ m_next_image_ready \in {"pending", "signaled"}
    /\ m_command_fences = [i \in PerFrameSlots(image_count) |->
                              IF i = CommandSlot(acquired_image)
                              THEN "unsignaled" ELSE CreatedFence]
    /\ m_command_buffers = [i \in PerFrameSlots(image_count) |-> "initial"]
    /\ m_uniform_buffers = [i \in PerFrameSlots(image_count) |-> 0]
    /\ ubo_data = NoImage
    /\ draw_i = 0
    /\ gpu_queue = <<>>
    /\ teardown_i = 1
    /\ teardown_log = <<>>
    /\ per_image_objects = PerImageObjects(image_count)
    /\ ubo_offset = 0
    /\ recorded_draws = <<>>
    /\ SelReady /\ MemIdle /\ UploadIdle /\ MainRunning /\ ReportIdle

\* the recording part of draw()
NextRecord == DrawBegin \/ DrawRecord \/ DrawEnd
SpecRecord == InitRecord /\ [][NextRecord]_vars

InitUpload ==
    InitUploadCall /\ MemForUpload /\ SelReady /\ FrameIdle /\ MainRunning /\ ReportIdle
SpecUpload == InitUpload /\ [][NextUpload]_vars

\* The frame loop of the application when every acquisition is answered
\* with an image: the steps of the one CPU thread, the events glfwPollEvents
\* may deliver, the GPU and the presentation engine.
CpuStep ==
    \/ RunWhile
    \/ PollReturn
    \/ DrawResetImageFence
    \/ DrawAcquire
    \/ DrawWaitFence
    \/ DrawResetFence
    \/ DrawResetCommandBuffer
    \/ DrawBegin
    \/ DrawRecord
    \/ DrawEnd
    \/ DrawWaitImage
    \/ DrawSubmit
    \/ DrawPresent
    \/ CleanupStep
    \/ CleanupReturn
    \/ MainRunReturns

NextLoop ==
    \/ CpuStep
    \/ PollKey
    \/ PollRefresh
    \/ GpuComplete
    \/ PresentationImageReady
    \/ PresentationRelease

InitLoop ==
    /\ InitRun
    /\ image_count = MinImageCount
    /\ draw_count = 1
    /\ SelReady /\ MemIdle /\ UploadIdle /\ MainRunning /\ ReportIdle

\* The thread runs while it can; the GPU completes what is submitted; the
\* presentation engine signals the fence of an acquisition and lets go of
\* the images it was given.
SpecLoopFair ==
    /\ InitLoop /\ [][NextLoop]_vars
    /\ WF_vars(CpuStep)
    /\ WF_vars(GpuComplete)
    /\ WF_vars(PresentationImageReady)
    /\ WF_vars(PresentationRelease)

InitChain ==
    /\ InitChainCall /\ SelReady /\ FrameIdle /\ UploadIdle /\ MainRunning
    /\ debug_report = NoReport /\ raised = NoError /\ callback_result = "none"
    /\ ExtIdle /\ GltfIdle
SpecChain == InitChain /\ [][NextChain]_vars

InitFrame ==
    (InitRun \/ InitImpl) /\ SelReady /\ MemIdle /\ UploadIdle /\ MainRunning /\ ReportIdle
SpecFrame == InitFrame /\ [][NextFrame]_vars

\* ------------------------------------------------------------------------
\* What the checks are to establish, stated on the reported lists
\* ------------------------------------------------------------------------
Names(seq) == {seq[k] : k \in DOMAIN seq}

SupportsRequiredExtensions(pd) ==
    Names(RequiredDeviceExtensions) \subseteq Names(pd.device_extensions)

HasGraphicsComputePresentFamily(pd) ==
    \E f \in Names(pd.queue_family_properties) :
        /\ {"eGraphics", "eCompute"} \subseteq f.queueFlags
        /\ f.surface_support

HasCompatibleSurfaceFormat(pd) ==
    \/ (Len(pd.surface_formats) = 1
        /\ \A f \in Names(pd.surface_formats) : f.format = "eUndefined")
    \/ SurfaceFormat("eB8G8R8A8Unorm", "eSrgbNonlinear") \in Names(pd.surface_formats)

HasMailbox(pd) == "eMailbox" \in Names(pd.present_modes)

Qualifies(pd) ==
    /\ SupportsRequiredExtensions(pd)
    /\ HasGraphicsComputePresentFamily(pd)
    /\ pd.surface_formats # <<>>
    /\ HasCompatibleSurfaceFormat(pd)
    /\ HasMailbox(pd)

IsDiscrete(pd) == pd.deviceType = "eDiscreteGpu"

Qualifying(devs) == {k \in DOMAIN devs : Qualifies(devs[k])}
QualifyingDiscrete(devs) == {k \in Qualifying(devs) : IsDiscrete(devs[k])}

Min(S) == CHOOSE x \in S : \A y \in S : x <= y
Max(S) == CHOOSE x \in S : \A y \in S : x >= y

\* vk_create_device_objects has scanned the enumerated devices and has
\* returned or thrown; vk_create_swap_chain has not run yet.
Scanned ==
    /\ select_calls > 0
    /\ enumerated # <<>>
    /\ vk_pc \in {"vk_create_swap_chain", "failed"}
    /\ error.type # "vk::Error"

\* The enumeration orders of the enumerated set: order[j] is the device
\* (by its place in `enumerated`) that is enumerated j-th.
OrdersOfLength(n) == {o \in [1 .. n -> 1 .. n] : \A i, j \in 1 .. n : i # j => o[i] # o[j]}
OrdersTable == [n \in 0 .. MaxAdapters |-> OrdersOfLength(n)]
Orders(n) == OrdersTable[n]
Reordered(devs, o) == [j \in DOMAIN devs |-> devs[o[j]]]

\* The device (by its place in `enumerated`) the scan selects in order o;
\* 0 when it selects none.
WinnerIn(devs, o) ==
    LET w == ScanPhysicalDevices(Reordered(devs, o), 1, 0, UINT32_MAX).found
    IN IF w = 0 THEN 0 ELSE o[w]

\* ------------------------------------------------------------------------
\* Claims about device negotiation (SpecSelect)
\* ------------------------------------------------------------------------
MissingSwapChain == [Baseline("eDiscreteGpu") EXCEPT !.device_extensions = <<"VK_KHR_maintenance1">>]

\* Scenario A: a device without the swap-chain extension, a qualifying
\* integrated device and a qualifying discrete device, in some order.
ScenarioA ==
    /\ Scanned
    /\ Len(enumerated) = 3
    /\ \E o \in Orders(3) :
          /\ enumerated[o[1]] = MissingSwapChain
          /\ enumerated[o[2]] = Baseline("eIntegratedGpu")
          /\ enumerated[o[3]] = Baseline("eDiscreteGpu")

\* C3 as stated: in every enumeration order of the enumerated set the scan
\* selects the same device as it selected in the order enumerated, and that
\* device is discrete whenever a qualifying device is discrete.
C3_SameWinnerInEveryOrder ==
    Scanned =>
        /\ \A o \in Orders(Len(enumerated)) : WinnerIn(enumerated, o) = m_physical_device
        /\ (QualifyingDiscrete(enumerated) # {}
                => IsDiscrete(enumerated[m_physical_device]))

\* C3 as amended: in every enumeration order the selected device is
\* discrete whenever a qualifying device is discrete, and it is the same
\* device in every order when exactly one qualifying device is discrete (as
\* in scenario A); with several qualifying discrete devices, or several
\* qualifying devices none of them discrete, the order decides the winner.
C3_DiscreteInEveryOrder ==
    Scanned =>
        LET none == Qualifying(enumerated) = {}
            discrete == QualifyingDiscrete(enumerated)
            scenario == ScenarioA
        IN \A o \in Orders(Len(enumerated)) :
              LET w == WinnerIn(enumerated, o) IN
              /\ (w = 0) = none
              /\ (discrete # {} => w \in discrete)
              /\ (Cardinality(discrete) = 1 => w = m_physical_device)
              /\ (scenario => enumerated[w] = Baseline("eDiscreteGpu"))

\* C3 witness: scenario A with the discrete device enumerated first of the
\* three, which is the device selected.
C3_Witness ==
    /\ ScenarioA
    /\ enumerated[1] = Baseline("eDiscreteGpu")
    /\ enumerated[2] = MissingSwapChain
    /\ m_physical_device = 1

\* C4 as stated: with no qualifying discrete device the selected device is
\* the first qualifying one; with one, it is a qualifying discrete device.
C4_FirstQualifyingWins ==
    (Scanned /\ Qualifying(enumerated) # {}) =>
        IF QualifyingDiscrete(enumerated) = {}
        THEN m_physical_device = Min(Qualifying(enumerated))
        ELSE m_physical_device \in QualifyingDiscrete(enumerated)

\* C4 as amended: every later qualifying device overrides the choice, and
\* the scan stops at the first qualifying discrete device: the selected
\* device is the first qualifying discrete device when there is one, and
\* otherwise the last qualifying device.
C4_LastQualifyingUnlessDiscrete ==
    (Scanned /\ Qualifying(enumerated) # {}) =>
        IF QualifyingDiscrete(enumerated) = {}
        THEN m_physical_device = Max(Qualifying(enumerated))
        ELSE m_physical_device = Min(QualifyingDiscrete(enumerated))

\* C4 witness: two qualifying devices, none discrete, the second selected.
C4_Witness ==
    /\ Scanned
    /\ Cardinality(Qualifying(enumerated)) >= 2
    /\ QualifyingDiscrete(enumerated) = {}
    /\ m_physical_device = Max(Qualifying(enumerated))
    /\ m_physical_device # Min(Qualifying(enumerated))

\* C5: the selected device passes every check (extensions, a graphics +
\* compute + present queue family, the surface format, mailbox), whatever
\* devices are enumerated before and after it.
C5_SelectedPassesEveryCheck ==
    m_physical_device # 0 =>
        /\ m_physical_device \in DOMAIN enumerated
        /\ SupportsRequiredExtensions(enumerated[m_physical_device])
        /\ HasGraphicsComputePresentFamily(enumerated[m_physical_device])
        /\ HasCompatibleSurfaceFormat(enumerated[m_physical_device])
        /\ HasMailbox(enumerated[m_physical_device])

\* C5 witness: the selected device stands between two devices each failing
\* a check.
C5_Witness ==
    /\ Len(enumerated) = 3
    /\ m_physical_device = 2
    /\ ~HasMailbox(enumerated[1])
    /\ ~HasGraphicsComputePresentFamily(enumerated[3])

\* every enumerated device lacks a graphics + compute + present family
NoQueueAnywhere ==
    /\ Scanned
    /\ \A k \in DOMAIN enumerated : ~HasGraphicsComputePresentFamily(enumerated[k])

\* the exception vk_create_device_objects ends with on the devices devs
SelectionError(devs) ==
    IF devs = <<>> THEN ExhaustionErrorAsEmpty
    ELSE IF ScanPhysicalDevices(devs, 1, 0, UINT32_MAX).found = 0 THEN ExhaustionError
    ELSE NoError

C7_FailureCreatesNothing ==
    (select_calls > 0 /\ Qualifying(enumerated) = {}) =>
        /\ vk_pc = "failed"
        /\ error.type = "capability_exception"
        /\ ~m_device /\ ~m_queue /\ ~m_command_pool /\ ~m_swap_chain
        /\ m_physical_device = 0
        /\ select_calls = 1

\* C7 witness: three devices enumerated, none qualifying, and the failure;
\* and the empty enumeration is a failure as well.
C7_Witness ==
    /\ select_calls = 1
    /\ Len(enumerated) = 3
    /\ Qualifying(enumerated) = {}
    /\ vk_pc = "failed"

\* ------------------------------------------------------------------------
\* Claims about get_memory_type (SpecMem, SpecMemFair)
\* ------------------------------------------------------------------------
\* type i is allowed by the bitmask the caller passed and has every
\* requested property flag
Matches(i) ==
    /\ i \in DOMAIN m_memory_properties
    /\ Bit(requested_types, i)
    /\ desired_memory_properties \subseteq m_memory_properties[i]

MatchExists == \E i \in DOMAIN m_memory_properties : Matches(i)

\* Scenario C: four memory types, all allowed, of which only index 2 has
\* both host-visible and host-coherent and a lower one has host-visible only.
ScenarioC ==
    /\ TypeCount(m_memory_properties) = 4
    /\ requested_types = 15
    /\ desired_memory_properties = {HostVisible, HostCoherent}
    /\ m_memory_properties[1] = {HostVisible}
    /\ \A i \in DOMAIN m_memory_properties :
          (desired_memory_properties \subseteq m_memory_properties[i]) = (i = 2)

\* C8: the index get_memory_type returns is the lowest index whose bit is
\* set in the allowed types and whose properties include every requested
\* flag; in scenario C it is 2.
C8_ReturnsLowestMatch ==
    mt_pc = "returned" =>
        /\ Matches(mt_result)
        /\ \A j \in DOMAIN m_memory_properties : j < mt_result => ~Matches(j)
        /\ (ScenarioC => mt_result = 2)

\* C8 witness: scenario C has returned index 2.
C8_Witness ==
    /\ mt_pc = "returned"
    /\ ScenarioC
    /\ mt_result = 2

\* C9: every call ends, by a return or by the capability exception; it
\* ends by the exception, with no index returned, exactly when no allowed
\* type has all the requested flags.
C9_TerminatesThrowsIffNoMatch ==
    /\ <>(mt_pc \in {"returned", "thrown"})
    /\ [](mt_pc = "thrown" => (~MatchExists /\ mt_result = NoIndex))
    /\ [](mt_pc = "returned" => (MatchExists /\ mt_result # NoIndex))

\* C9 witness: the exception after two allowed types were tried; the empty
\* bitmask throws at once.
C9_Witness ==
    /\ mt_pc = "thrown"
    /\ requested_types = 6
    /\ mem_type = 2

\* ------------------------------------------------------------------------
\* Claims about the frame loop and teardown (SpecFrame)
\* ------------------------------------------------------------------------
\* the GPU has not finished a submission of slot k's command buffer
SlotPending(k) == \E j \in DOMAIN gpu_queue : gpu_queue[j].command_buffer = k

\* the GPU has not finished a submission that reads uniform buffer b
BufferPending(b) == \E j \in DOMAIN gpu_queue : gpu_queue[j].uniform_buffer = b

\* draw() is about to reset, begin or extend the slot's command buffer
Recording == pc \in {"draw_reset_command_buffer", "draw_begin", "draw_record"}

\* with a slow GPU draw() stops at the wait on the slot's fence, and at no
\* statement ahead of it on account of the GPU
BlocksAtFenceWait ==
    /\ (pc = "draw_wait_fence" /\ SlotPending(CommandSlot(acquired_image)))
           => ~ENABLED DrawWaitFence
    /\ pc = "draw_reset_image_fence" => ENABLED DrawResetImageFence
    /\ (pc = "draw_acquire" /\ \E i \in Images : image_state[i] = "free")
           => ENABLED DrawAcquire

\* C1 as stated: whenever draw() resets or records slot K's command buffer,
\* slot K's fence is signaled; and the CPU blocks at the fence wait, not
\* before it.
C1_RecordsOnlyWhileFenceSignaled ==
    /\ Recording => m_command_fences[CommandSlot(acquired_image)] = "signaled"
    /\ BlocksAtFenceWait

\* C1 as amended: whenever draw() resets or records slot K's command
\* buffer, the wait on slot K's fence has returned and the GPU has finished
\* the slot's previous submission; the fence itself has been reset by then
\* and stays unsignaled until the submit; and the CPU blocks at the fence
\* wait, not before it.
C1_RecordsOnlyAfterFenceWait ==
    /\ Recording =>
          /\ ~SlotPending(CommandSlot(acquired_image))
          /\ m_command_buffers[CommandSlot(acquired_image)] # "pending"
          /\ (pc # "draw_reset_command_buffer"
                  => m_command_fences[CommandSlot(acquired_image)] = "unsignaled")
    /\ BlocksAtFenceWait

\* C1 witness: the command buffer of a slot used in an earlier frame has
\* been reset while the GPU still works on another slot's submission.
C1_Witness ==
    /\ pc = "draw_begin"
    /\ m_command_buffers[CommandSlot(acquired_image)] = "initial"
    /\ image_state[acquired_image] = "acquired"
    /\ m_uniform_buffers[UniformBufferOf(acquired_image)] > 0
    /\ gpu_queue # <<>>

\* C2: while a uniform buffer is mapped for writing, draw() is inside its
\* per-draw loop, past the wait on the slot's fence and ahead of the
\* submit, and the GPU has no unfinished submission that reads that buffer;
\* at the submit the buffer is unmapped.
C2_UniformWritesBetweenWaitAndSubmit ==
    /\ ubo_data # NoImage =>
          /\ pc = "draw_record"
          /\ ~BufferPending(ubo_data)
          /\ ~SlotPending(CommandSlot(acquired_image))
          /\ m_command_fences[CommandSlot(acquired_image)] = "unsignaled"
    /\ pc \in {"draw_wait_image", "draw_submit", "draw_present"} => ubo_data = NoImage

\* C2 witness: the second transform of a frame is about to be written into
\* a buffer that holds two transforms of an earlier frame, while the GPU
\* works on another slot's submission.
C2_Witness ==
    /\ pc = "draw_record"
    /\ draw_i = 1
    /\ m_uniform_buffers[ubo_data] = 2
    /\ gpu_queue # <<>>

\* name was destroyed by teardown
Destroyed(name) == \E i \in DOMAIN teardown_log : teardown_log[i] = name

\* teardown destroys a ahead of b: b is not destroyed unless a has been
DestroyedBefore(a, b) ==
    \A j \in DOMAIN teardown_log :
        teardown_log[j] = b => \E i \in 1 .. (j - 1) : teardown_log[i] = a

StrictOrder ==
    /\ DestroyedBefore("m_swap_chain", "m_device")
    /\ DestroyedBefore("m_device", "m_surface")
    /\ DestroyedBefore("m_surface", "m_instance")

\* teardown starts with the idle wait, and nothing is destroyed while the
\* GPU has work left
IdleWaitFirst ==
    /\ teardown_log # <<>> => teardown_log[1] = "waitIdle"
    /\ Len(teardown_log) > 1 => gpu_queue = <<>>

\* C10 as stated: on every teardown path the idle wait comes first and the
\* order is swap chain, device, surface, instance.
C10_IdleWaitThenStrictOrder ==
    /\ IdleWaitFirst
    /\ StrictOrder

\* C10 as amended: on every teardown path the order is swap chain, device,
\* surface, instance; application::cleanup starts with the device-wide idle
\* wait and destroys nothing while the GPU has work left;
\* graphics::impl::~impl makes no idle wait (that unit submits no GPU work).
C10_StrictOrderIdleWaitInCleanup ==
    /\ StrictOrder
    /\ unit = "application" => IdleWaitFirst
    /\ unit = "graphics_impl" => (~Destroyed("waitIdle") /\ gpu_queue = <<>>)

\* C10 witness: application::cleanup has run to its end after the idle wait.
C10_Witness ==
    /\ unit = "application"
    /\ pc = "exit"
    /\ teardown_log[1] = "waitIdle"
    /\ Destroyed("m_instance")
    /\ ~m_swap_chain /\ ~m_device /\ ~m_surface /\ ~m_instance

\* the teardown step about to run (none outside teardown)
NextTeardownStep ==
    IF unit = "application" /\ pc = "cleanup" /\ teardown_i <= Len(ApplicationTeardown)
    THEN ApplicationTeardown[teardown_i]
    ELSE IF unit = "graphics_impl" /\ pc = "impl_alive" /\ teardown_i <= Len(impl_destroys)
    THEN impl_destroys[teardown_i]
    ELSE "none"

\* C11: when the logical device is about to be destroyed, and ever after,
\* no object created from it is left and the GPU has no work.
C11_DeviceDestroyedLast ==
    (NextTeardownStep = "m_device" \/ Destroyed("m_device")) =>
        /\ LiveDeviceObjects = {}
        /\ gpu_queue = <<>>

\* C11 witness: application::vk_cleanup is about to destroy the device,
\* after frames were drawn.
C11_Witness ==
    /\ unit = "application"
    /\ NextTeardownStep = "m_device"
    /\ \E i \in Images : m_uniform_buffers[i] > 0

\* ------------------------------------------------------------------------
\* Claims about uploads (SpecUpload)
\* ------------------------------------------------------------------------
\* the upload has gone past finish_one_time_command_buffer
UploadFinished ==
    up_pc \in {"cleanup_command_buffer", "cleanup_staging", "return", "returned"}

\* C12: past finish_one_time_command_buffer, and so at the return, the copy
\* has been submitted and the GPU has executed it; while the copy is
\* submitted and not executed the upload is inside the idle wait and the
\* staging buffer and the copy command buffer are still there.
C12_ReturnsAfterQueueIdle ==
    /\ UploadFinished => copy_command_buffer \in {"invalid", "freed"}
    /\ up_pc = "returned" => copy_command_buffer = "freed"
    /\ copy_command_buffer = "pending" =>
          /\ up_pc = "wait_idle"
          /\ staging_buffer.object /\ staging_buffer.device_memory
    /\ (up_pc \in {"return", "returned"} /\ up_kind = "buffer")
          => optimized.data = <<staging_buffer.data>> \/ staging_buffer = NoResource

\* C12 witness: create_texture has returned.
C12_Witness ==
    /\ up_pc = "returned"
    /\ up_kind = "texture"
    /\ copy_command_buffer = "freed"
    /\ staging_buffer = NoResource

\* C13: when an upload has ended, by its return or by an exception, no
\* staging buffer and no staging memory is left.
C13_NoStagingLeftAfterUpload ==
    up_pc \in {"returned", "failed"} => staging_buffer = NoResource

\* C14: the resource an upload has returned holds the payload: as many
\* bytes, the same bytes, in the same order.
C14_ReadBackEqualsPayload ==
    up_pc = "returned" =>
        Concat(m_static_resources[Len(m_static_resources)].data) = Concat(payload)

\* C25: the copy command buffer of a texture holds the barrier from
\* undefined to transfer-dst, the copy, and the barrier from transfer-dst to
\* shader-read-only, in that order; at the return of create_texture the
\* image is shader-read-only and its base level holds what was staged; an
\* image is in a descriptor set only once it has been returned in that
\* layout.
C25_TextureReadableBeforeBound ==
    /\ (up_kind = "texture" /\ up_pc \in {"return", "returned"}) =>
          /\ optimized.layout = "shader_read_only"
          /\ optimized.data[1] = payload[1]
    /\ (up_kind = "texture" /\ copy_command_buffer = "pending") =>
          optimized.layout = "undefined"
    /\ ~optimized.bound
    /\ \A i \in DOMAIN m_static_resources :
          m_static_resources[i].bound =>
             /\ m_static_resources[i].layout = "shader_read_only"
             /\ up_pc = "returned" \/ i < Len(m_static_resources)

\* C25 witness: a texture has been returned and written into a descriptor set.
C25_Witness ==
    /\ up_kind = "texture"
    /\ up_pc = "returned"
    /\ m_static_resources # <<>>
    /\ m_static_resources[Len(m_static_resources)].bound
    /\ m_static_resources[Len(m_static_resources)].layout = "shader_read_only"

\* ------------------------------------------------------------------------
\* Claims about the frame slots (SpecFrame)
\* ------------------------------------------------------------------------
\* the sizes of the vectors indexed by a swap chain image index
FrameSlotCounts ==
    {per_image_objects.m_swap_chain_color_images,
     per_image_objects.m_swap_chain_depth_images,
     per_image_objects.m_simple_framebuffers,
     per_image_objects.m_simple_mutable_sets,
     Cardinality(DOMAIN m_command_buffers),
     Cardinality(DOMAIN m_command_fences),
     Cardinality(DOMAIN m_uniform_buffers)}

\* C15: the numbers of colour views, depth images, framebuffers, command
\* buffers, fences, uniform buffers and descriptor sets all equal the swap
\* chain image count; the count and these numbers never change; and an
\* acquired image index is an index of every one of these vectors.
C15_FrameSlotsMatchImageCount ==
    /\ [](/\ FrameSlotCounts = {image_count}
          /\ acquired_image # NoImage =>
                /\ acquired_image \in 0 .. (image_count - 1)
                /\ acquired_image \in DOMAIN m_command_buffers
                /\ acquired_image \in DOMAIN m_command_fences
                /\ acquired_image \in DOMAIN m_uniform_buffers
                /\ \A n \in FrameSlotCounts : acquired_image < n)
    /\ [][/\ image_count' = image_count
          /\ FrameSlotCounts' = FrameSlotCounts]_vars

\* C15 witness: in a later frame draw() records into the last slot.
C15_Witness ==
    /\ pc = "draw_record"
    /\ image_count >= MinImageCount
    /\ acquired_image = image_count - 1
    /\ m_uniform_buffers[0] > 0

\* the state of frame slot i in the cycle of draw()
SlotStateIn(fences, queue, i) ==
    IF fences[i] = "destroyed" THEN "Destroyed"
    ELSE IF fences[i] = "signaled" THEN "Idle"
    ELSE IF \E j \in DOMAIN queue : queue[j].fence = i THEN "Submitted"
    ELSE "Recording"
SlotState(i) == SlotStateIn(m_command_fences, gpu_queue, i)

\* the step is m_device.resetFences(command_fence) in draw()
FenceResetStep == pc = "draw_reset_fence" /\ pc' = "draw_reset_command_buffer"

\* the step is m_queue.submit in draw()
SubmitStep == Len(gpu_queue') > Len(gpu_queue)

\* C16: a slot changes state only Idle -> Recording, Recording -> Submitted
\* and Submitted -> Idle (teardown, which destroys the fences, aside); the
\* fence reset in draw() finds the slot Idle and leaves it Recording; the
\* submit finds the slot of its fence Recording and leaves it Submitted; a
\* slot becomes Idle only by the GPU signaling its fence.
C16_SlotCycle ==
    [][/\ \A i \in DOMAIN m_command_fences :
            (SlotState(i)' # SlotState(i) /\ SlotState(i)' # "Destroyed") =>
                \/ SlotState(i) = "Idle" /\ SlotState(i)' = "Recording" /\ FenceResetStep
                \/ SlotState(i) = "Recording" /\ SlotState(i)' = "Submitted" /\ SubmitStep
                \/ /\ SlotState(i) = "Submitted" /\ SlotState(i)' = "Idle"
                   /\ gpu_queue # <<>> /\ Head(gpu_queue).fence = i
                   /\ gpu_queue' = Tail(gpu_queue)
       /\ FenceResetStep =>
             /\ SlotState(CommandSlot(acquired_image)) = "Idle"
             /\ SlotState(CommandSlot(acquired_image))' = "Recording"
       /\ SubmitStep =>
             LET fence == gpu_queue'[Len(gpu_queue')].fence IN
             /\ fence = CommandSlot(acquired_image)
             /\ SlotState(fence) = "Recording"
             /\ SlotStateIn(m_command_fences', gpu_queue', fence) = "Submitted"]_vars

\* C16 witness: a slot that has been through the cycle is Recording again
\* while another slot is Submitted.
C16_Witness ==
    /\ pc = "draw_begin"
    /\ SlotState(CommandSlot(acquired_image)) = "Recording"
    /\ m_uniform_buffers[UniformBufferOf(acquired_image)] > 0
    /\ \E i \in DOMAIN m_command_fences : SlotState(i) = "Submitted"

\* a slot no draw() has used yet
SlotUnused(i) ==
    /\ m_command_buffers[i] = "initial"
    /\ \A j \in DOMAIN gpu_queue : gpu_queue[j].fence # i
    /\ ~(acquired_image # NoImage /\ CommandSlot(acquired_image) = i
         /\ pc \notin {"draw_wait_fence", "draw_reset_fence"})

\* C17: a slot no draw() has used is Idle, its fence signaled; so the first
\* draw() that uses a slot is not held at the wait on the slot's fence,
\* with nothing submitted for it.
C17_SlotsStartIdle ==
    \A i \in DOMAIN m_command_fences :
        (SlotUnused(i) /\ m_command_fences[i] # "destroyed") =>
            /\ SlotState(i) = "Idle"
            /\ (pc = "draw_wait_fence" /\ CommandSlot(acquired_image) = i)
                   => ENABLED DrawWaitFence

\* C17 witness: the first draw() is at the wait on its slot's fence and
\* nothing has been submitted.
C17_Witness ==
    /\ pc = "draw_wait_fence"
    /\ gpu_queue = <<>>
    /\ \A i \in DOMAIN m_command_buffers : m_command_buffers[i] = "initial"
    /\ SlotUnused(CommandSlot(acquired_image))

\* the step is m_queue.presentKHR of image i
PresentStep(i) == image_state'[i] = "presented" /\ image_state[i] # "presented"

\* C18: the submit in draw() happens with an image acquired and the wait
\* on its readiness fence returned, submits the slot's command buffer with
\* the slot's fence; the present is of the acquired image, on the queue of
\* the submit, with the slot's command buffer submitted in this draw().
C18_SubmitAfterAcquirePresentSameImage ==
    [][/\ SubmitStep =>
             /\ pc = "draw_submit"
             /\ acquired_image \in Images
             /\ image_state[acquired_image] = "acquired"
             /\ m_next_image_ready = "signaled"
             /\ m_command_buffers[CommandSlot(acquired_image)] = "executable"
             /\ gpu_queue' = Append(gpu_queue,
                                    [command_buffer |-> CommandSlot(acquired_image),
                                     fence |-> CommandSlot(acquired_image),
                                     uniform_buffer |-> gpu_queue'[Len(gpu_queue')].uniform_buffer])
             /\ m_queue
       /\ \A i \in DOMAIN image_state :
             PresentStep(i) =>
                 /\ pc = "draw_present"
                 /\ i = acquired_image
                 /\ image_state[i] = "acquired"
                 /\ m_command_buffers[CommandSlot(i)] \in {"pending", "invalid"}
                 /\ m_queue]_vars

\* C18 witness: draw() has returned; its image is presented and the GPU
\* still works on the submission made for it.
C18_Witness ==
    /\ pc = "run_while"
    /\ \E i \in DOMAIN image_state :
          /\ image_state[i] = "presented"
          /\ m_command_buffers[CommandSlot(i)] = "pending"
          /\ Len(gpu_queue) > 1
          /\ gpu_queue[Len(gpu_queue)].fence = CommandSlot(i)

\* ------------------------------------------------------------------------
\* Claims about the per-draw loop (SpecRecord)
\* ------------------------------------------------------------------------
\* the offset that follows the k-th write: the next write's, or ubo_offset
OffsetAfter(k) ==
    IF k < Len(recorded_draws)
    THEN recorded_draws[k + 1].dynamic_ubo_offset ELSE ubo_offset

\* C19: every dynamic offset bound for a draw is a multiple of the device
\* alignment, the offsets are strictly increasing, and after each write the
\* offset is the write's end rounded up to the alignment: the least multiple
\* of it that is not below the end.
C19_OffsetsAlignedIncreasing ==
    /\ \A k \in DOMAIN recorded_draws :
          /\ recorded_draws[k].dynamic_ubo_offset % m_ubo_min_field_align = 0
          /\ \A j \in 1 .. (k - 1) :
                recorded_draws[j].dynamic_ubo_offset < recorded_draws[k].dynamic_ubo_offset
          /\ OffsetAfter(k) % m_ubo_min_field_align = 0
          /\ OffsetAfter(k) >= recorded_draws[k].dynamic_ubo_offset + SizeofMat4
          /\ OffsetAfter(k) < recorded_draws[k].dynamic_ubo_offset + SizeofMat4
                                  + m_ubo_min_field_align
    /\ Len(recorded_draws) = draw_i

\* C19 witness: two writes on a device whose alignment exceeds the size of
\* a write; the second is at the alignment.
C19_Witness ==
    /\ pc = "draw_wait_image"
    /\ m_ubo_min_field_align > SizeofMat4
    /\ Len(recorded_draws) = 2
    /\ recorded_draws[2].dynamic_ubo_offset = m_ubo_min_field_align

\* the loop of draw() is done
RecordingDone == pc \in {"draw_wait_image", "draw_submit", "draw_present"}

\* C20: the command buffer holds one indexed draw call per draw record
\* gone through, in the order of the draw list, each with the index_count,
\* first_index and vertex_offset of its record and with the record's vertex
\* and index buffer bound; when the loop is done there is one per record.
\* For the one record of a quad with 6 indices the one call has
\* index_count 6, first_index 0, vertex_offset 0.
C20_OneDrawCallPerRecord ==
    /\ Len(recorded_draws) = draw_i
    /\ RecordingDone => Len(recorded_draws) = Len(m_draws)
    /\ \A k \in DOMAIN recorded_draws :
          /\ recorded_draws[k].drawIndexed.index_count = m_draws[k].index_count
          /\ recorded_draws[k].drawIndexed.first_index = m_draws[k].first_index
          /\ recorded_draws[k].drawIndexed.vertex_offset = m_draws[k].vertex_offset
          /\ recorded_draws[k].vertex_buffer = m_draws[k].vbo
          /\ recorded_draws[k].index_buffer = m_draws[k].ibo
    /\ (RecordingDone /\ m_draws = <<node_draw(0, 1, QuadIndices)>>) =>
          [k \in DOMAIN recorded_draws |-> recorded_draws[k].drawIndexed]
              = <<[index_count |-> 6, first_index |-> 0, vertex_offset |-> 0]>>

\* C20 witness: two records with different buffers and a first index that
\* is not 0 have been recorded.
C20_Witness ==
    /\ RecordingDone
    /\ Len(recorded_draws) = 2
    /\ recorded_draws[1].drawIndexed.first_index # 0
    /\ recorded_draws[1].vertex_buffer # recorded_draws[2].vertex_buffer
    /\ recorded_draws[2].drawIndexed.index_count = 6

\* ------------------------------------------------------------------------
\* Claims about the order on the queue (SpecFrame)
\* ------------------------------------------------------------------------
\* C21: submits and presents alternate on the one queue, each present
\* being that of the frame just submitted: a submit is of the acquired
\* image's command buffer and is followed, with no other queue operation of
\* the CPU between, by the present of that image; a present happens only
\* there.  Hence frames are presented in the order they are submitted, and
\* each after its own submit.
C21_PresentFollowsOwnSubmit ==
    [][/\ SubmitStep =>
             /\ gpu_queue'[Len(gpu_queue')].command_buffer = CommandSlot(acquired_image)
             /\ pc' = "draw_present"
             /\ acquired_image' = acquired_image
             /\ image_state' = image_state
       /\ (pc = "draw_present" /\ pc' # pc) =>
             /\ PresentStep(acquired_image)
             /\ ~SubmitStep
       /\ \A i \in DOMAIN image_state :
             PresentStep(i) => (pc = "draw_present" /\ i = acquired_image)
       /\ (pc = "draw_present" /\ pc' = pc) =>
             (acquired_image' = acquired_image /\ ~SubmitStep)]_vars

\* C21 witness: the second frame is at its present, after its submit, with
\* the first frame presented and its submission still ahead in the queue.
C21_Witness ==
    /\ pc = "draw_present"
    /\ Len(gpu_queue) = 2
    /\ gpu_queue[2].command_buffer = CommandSlot(acquired_image)
    /\ \E i \in DOMAIN image_state :
          /\ image_state[i] = "presented"
          /\ gpu_queue[1].command_buffer = CommandSlot(i)

\* ------------------------------------------------------------------------
\* Claims about the whole run (SpecRun)
\* ------------------------------------------------------------------------
\* the copy of an upload is on the queue
UploadOnQueue == copy_command_buffer = "pending"

\* C22: while the copy of an upload is on the queue, init is still loading
\* assets and no frame has been submitted; a frame is submitted only with
\* every upload returned and no copy on the queue; and once init has
\* returned no upload is started or carried on.
C22_UploadsBeforeFrames ==
    /\ [](UploadOnQueue => (pc = "init_assets" /\ gpu_queue = <<>>))
    /\ [](gpu_queue # <<>> => (~UploadOnQueue /\ up_pc = "returned"))
    /\ [][/\ SubmitStep => (~UploadOnQueue /\ up_pc = "returned")
          /\ pc # "init_assets" =>
                UNCHANGED <<up_pc, up_kind, payload, staging_buffer, optimized,
                            copy_command_buffer>>]_vars

\* C22 witness: two uploads have returned and a frame is on the queue.
C22_Witness ==
    /\ Len(m_static_resources) = 2
    /\ up_pc = "returned"
    /\ gpu_queue # <<>>
    /\ pc = "draw_present"

\* the process has ended
ProcessEnded == pc \in {"main_returned", "std_terminate"}

\* C23: an error is never recovered from: once raised, the run is on its
\* way to main or has ended.  A process that has ended after an error has
\* ended by main returning EXIT_FAILURE, with a record logged unless the
\* log could not be opened; main returns EXIT_SUCCESS only when run() has
\* returned, after cleanup, with no error.
C23_ErrorsEndInMainWithFailure ==
    /\ error # NoError =>
          /\ pc \in {"init_assets", "terminated", "main_returned", "std_terminate"}
          /\ pc = "init_assets" => up_pc = "failed"
    /\ (ProcessEnded /\ error # NoError) =>
          /\ pc = "main_returned"
          /\ ret_val = "EXIT_FAILURE"
          /\ exception_log \in {"written", "unopened"}
    /\ (ProcessEnded /\ ret_val = "EXIT_SUCCESS") =>
          /\ error = NoError
          /\ pc = "main_returned"
          /\ teardown_i > Len(ApplicationTeardown)

\* the validation layer calls back, in either unit, at run time
InitReport ==
    /\ debug_report \in DebugReports
    /\ raised = NoError
    /\ callback_result = "none"
    /\ InitRun \/ InitImpl
    /\ image_count \in {0, MinImageCount}
    /\ draw_count = 0
    /\ SelReady /\ MemIdle /\ UploadIdle /\ MainRunning /\ ChainIdle
    /\ ExtIdle /\ GltfIdle

SpecReport == InitReport /\ [][NextReport]_vars

\* ------------------------------------------------------------------------
\* Claims about the debug report callback (SpecReport)
\* ------------------------------------------------------------------------
\* the name of a VkDebugReportObjectTypeEXT value
DebugReportObjectTypeName(value) ==
    CASE value = 1 -> "Instance"
      [] value = 25 -> "CommandPool"
      [] value = 26 -> "SurfaceKHR"
      [] value = 27 -> "SwapchainKHR"
      [] OTHER -> "invalid"

\* C24: a report with the error bit raises vk_debug_report_error whose
\* object type, object handle and message text are those of the report; a
\* report without the error bit raises nothing and the callback returns
\* VK_FALSE.
C24_ErrorReportCarriesObjectAndMessage ==
    callback_result # "none" =>
        IF "eError" \in debug_report.flags
        THEN /\ callback_result = "thrown"
             /\ raised = [type |-> "vk_debug_report_error",
                          object_type |-> DebugReportObjectTypeName(debug_report.object_type),
                          object |-> debug_report.object,
                          message |-> debug_report.message]
        ELSE /\ callback_result = "VK_FALSE"
             /\ raised = NoError

\* ------------------------------------------------------------------------
\* Claims about the swap chain's depth images (SpecChain)
\* ------------------------------------------------------------------------
\* C26: when vk_create_swap_chain returns there is exactly one depth image
\* (with its memory and view) and one color view per swap chain image, every
\* depth image is in depth-attachment-optimal, and the one-time command
\* buffer that made the transitions has been executed; while it is submitted
\* and not executed, vk_create_swap_chain is in its idle wait.
C26_DepthImagesReadyAtReturn ==
    /\ chain_pc = "returned" =>
          /\ Len(m_swap_chain_depth_images) = swap_chain_color_images
          /\ m_swap_chain_color_images = swap_chain_color_images
          /\ Len(layout_command_buffer.commands) = swap_chain_color_images
          /\ layout_command_buffer.state = "invalid"
          /\ \A i \in DOMAIN m_swap_chain_depth_images :
                /\ m_swap_chain_depth_images[i].object
                /\ m_swap_chain_depth_images[i].device_memory
                /\ m_swap_chain_depth_images[i].layout = "depth_stencil_attachment"
    /\ layout_command_buffer.state = "pending" => chain_pc = "wait_idle"
    /\ Len(m_swap_chain_depth_images) <= m_swap_chain_color_images

\* C26 witness: vk_create_swap_chain has returned with its depth images.
C26_Witness ==
    /\ chain_pc = "returned"
    /\ Len(m_swap_chain_depth_images) = MinImageCount
    /\ m_swap_chain_depth_images[MinImageCount].layout = "depth_stencil_attachment"

\* ------------------------------------------------------------------------
\* Claims about the result of the acquisition (SpecFrame)
\* ------------------------------------------------------------------------
\* draw() is past acquireNextImageKHR, in the frame of the acquired image
FrameUnderWay ==
    pc \in {"draw_wait_fence", "draw_reset_fence", "draw_reset_command_buffer",
            "draw_begin", "draw_record", "draw_end", "draw_wait_image",
            "draw_submit", "draw_present"}

\* C27: a suboptimal or out-of-date swap chain at the acquisition is not
\* silently ignored: while the frame of that acquisition is recorded,
\* submitted and presented the program holds a record of the condition, and
\* a failed acquisition is neither retried nor answered by a new swap chain.
C27_AcquireConditionNoticed ==
    /\ (unit = "application" /\ FrameUnderWay /\ acquire_result # "eSuccess")
          => error # NoError
    /\ (unit = "application" /\ error = VkError("vk::Device::acquireNextImageKHR"))
          => (pc \in {"terminated", "std_terminate", "main_returned"} /\ m_swap_chain)

\* ------------------------------------------------------------------------
\* Claims about the progress of the frame loop (SpecLoopFair)
\* ------------------------------------------------------------------------
\* the fence draw() is waiting on is signaled or an operation under way
\* will signal it
WaitedFenceWillSignal ==
    /\ pc = "draw_wait_fence" =>
          SlotState(CommandSlot(acquired_image)) \in {"Idle", "Submitted"}
    /\ pc = "draw_wait_image" => m_next_image_ready \in {"pending", "signaled"}

\* C28: with a GPU that completes every submission and a presentation
\* engine that answers and signals every acquisition, every draw() that is
\* entered reaches its present and returns, every Submitted slot becomes
\* Idle, every slot whose index the acquisition returns is submitted again,
\* and draw() waits only on a fence that is signaled or will be.
C28_FrameLoopProgress ==
    /\ (pc = "draw_reset_image_fence") ~> (pc = "draw_present")
    /\ (pc = "draw_present") ~> (pc \in {"poll", "run_while"})
    /\ \A i \in 0 .. (MinImageCount - 1) :
          /\ (SlotState(i) = "Submitted") ~> (SlotState(i) = "Idle")
          /\ (pc = "draw_wait_fence" /\ acquired_image = i)
                ~> (SlotState(i) = "Submitted")
    /\ []WaitedFenceWillSignal

\* C28 witness: draw() waits on the fence of a slot it has used before,
\* whose submission the GPU has not completed.
C28_Witness ==
    /\ pc = "draw_wait_fence"
    /\ SlotState(CommandSlot(acquired_image)) = "Submitted"
    /\ m_next_image_ready = "pending"

\* ------------------------------------------------------------------------
\* Claims about the static resources over the run (SpecRun)
\* ------------------------------------------------------------------------
\* the teardown statement a step of cleanup() executes
CleanupStatement == ApplicationTeardown[teardown_i]

\* the step destroys stored resource i
Destroys(i) ==
    /\ i \in DOMAIN m_static_resources
    /\ m_static_resources'[i] # m_static_resources[i]
    /\ ~m_static_resources'[i].object

\* C29: no step of draw(), of the GPU or of the presentation engine changes
\* the draw list or a stored static resource (its handles, its contents,
\* its place in a descriptor set); the draw list is written only while the
\* assets are loaded; a stored resource changes after the load only by the
\* statement of cleanup() that destroys its kind, which comes after the idle
\* wait and finds the resource alive, so that at the end of cleanup() every
\* stored resource has been destroyed once.
C29_StaticResourcesOnlyLoadedAndCleaned ==
    /\ [][/\ pc # "init_assets" => m_draws' = m_draws
          /\ (pc \notin {"init_assets", "cleanup"})
                => m_static_resources' = m_static_resources
          /\ pc = "cleanup" =>
                /\ Len(m_static_resources') = Len(m_static_resources)
                /\ \A i \in DOMAIN m_static_resources :
                      m_static_resources'[i] # m_static_resources[i] =>
                         /\ Destroys(i)
                         /\ m_static_resources[i].object
                         /\ m_static_resources[i].device_memory
                         /\ CleanupStatement = IF IsTexture(m_static_resources[i])
                                               THEN "textures_cleanup"
                                               ELSE "static_buffers_cleanup"
                         /\ \E k \in DOMAIN teardown_log : teardown_log[k] = "waitIdle"
                         /\ gpu_queue = <<>>]_vars
    /\ [](pc \in {"exit", "main_returned"} /\ ret_val = "EXIT_SUCCESS" =>
             \A i \in DOMAIN m_static_resources : ~m_static_resources[i].object)
    /\ [](pc = "exit" =>
             \A i \in DOMAIN m_static_resources : ~m_static_resources[i].object)

\* C29 witness: frames have been drawn with a buffer and a texture loaded,
\* and cleanup() has destroyed both.
C29_Witness ==
    /\ pc = "exit"
    /\ m_draws # <<>>
    /\ \E i \in Images : image_state[i] = "presented"
    /\ \E i, j \in DOMAIN m_static_resources :
          /\ IsTexture(m_static_resources[i]) /\ ~IsTexture(m_static_resources[j])
          /\ ~m_static_resources[i].object /\ ~m_static_resources[j].object

\* ------------------------------------------------------------------------
\* Claims about the stored queue family index (SpecSelect)
\* ------------------------------------------------------------------------
\* the indices (from 0) of the families of a device that support graphics,
\* compute and presentation to the surface
QualifyingFamilies(pd) ==
    {k - 1 : k \in {j \in DOMAIN pd.queue_family_properties :
                       /\ {"eGraphics", "eCompute"} \subseteq pd.queue_family_properties[j].queueFlags
                       /\ pd.queue_family_properties[j].surface_support}}

\* C30: once a device is selected, m_queue_family_index is the lowest index
\* of a family of that device that supports graphics, compute and
\* presentation, whatever devices are enumerated before and after it.
C30_QueueFamilyIndexOfSelectedDevice ==
    (m_physical_device # 0 /\ m_device) =>
        /\ QualifyingFamilies(enumerated[m_physical_device]) # {}
        /\ m_queue_family_index = Min(QualifyingFamilies(enumerated[m_physical_device]))

\* ------------------------------------------------------------------------
\* The extension checks taken alone: the count-based comparison of
\* vk_create_instance (gtb.cpp:763-787) and of the device scan (852-865;
\* graphics.cpp:327-340), on any enumerated list and any required list
\* ------------------------------------------------------------------------
MaxExtensions == 3
ExtensionNames == {"VK_KHR_swapchain", "VK_KHR_maintenance1"}

\* the lists an enumeration can return and a caller can ask for: any
\* names in any order, none, or one name more than once
NameLists == UNION {[1..n -> ExtensionNames] : n \in 0..MaxExtensions}

\* size_t found_extensions = 0; for (extension : supported_extensions)
\*     found_extensions += std::count(required..., ext.extensionName);
\* if (found_extensions != required_extensions.size()) throw ...
InstanceExtensionCheck ==
    /\ ext_pc = "enumerated"
    /\ ext_unit = "instance"
    /\ ext_accepted' =
          (FoundExtensions(enumerated_extensions, required_extensions)
              = Len(required_extensions))
    /\ ext_pc' = "checked"
    /\ UNCHANGED <<ext_unit, enumerated_extensions, required_extensions>>
    /\ UNCHANGED <<memVars, selVars, frameVars, uploadVars, mainVars, reportVars,
                   chainVars, gltfVars>>

\* if (device_extensions.empty()) continue; then the same count and
\* if (found_extensions != required_extensions.size()) continue;
DeviceExtensionCheck ==
    /\ ext_pc = "enumerated"
    /\ ext_unit = "device"
    /\ ext_accepted' =
          IF enumerated_extensions = <<>> THEN FALSE
          ELSE FoundExtensions(enumerated_extensions, required_extensions)
                  = Len(required_extensions)
    /\ ext_pc' = "checked"
    /\ UNCHANGED <<ext_unit, enumerated_extensions, required_extensions>>
    /\ UNCHANGED <<memVars, selVars, frameVars, uploadVars, mainVars, reportVars,
                   chainVars, gltfVars>>

NextExt == InstanceExtensionCheck \/ DeviceExtensionCheck

InitExt ==
    /\ ext_pc = "enumerated"
    /\ ext_unit \in {"instance", "device"}
    /\ enumerated_extensions \in NameLists
    /\ required_extensions \in NameLists
    /\ ext_accepted = FALSE
    /\ SelIdle /\ FrameIdle /\ MemIdle /\ UploadIdle /\ MainRunning /\ ChainIdle /\ GltfIdle
    /\ debug_report = NoReport /\ raised = NoError /\ callback_result = "none"

SpecExt == InitExt /\ [][NextExt]_vars

\* C31: an adapter (or the instance) passes the extension check exactly
\* when every required name occurs among the supported names, whatever the
\* two lists are (empty lists and lists with a repeated name included).
C31_ExtensionCheckIsSubsetTest ==
    ext_pc = "checked" =>
        (ext_accepted <=> Names(required_extensions) \subseteq Names(enumerated_extensions))

\* ------------------------------------------------------------------------
\* The per-draw loop of draw() on a long scene (gtb.cpp:2193-2224): the
\* writes through ubo_data against the size the buffer was created and
\* mapped with
\* ------------------------------------------------------------------------
\* static constexpr uint32_t per_frame_ubo_size = 65535;
per_frame_ubo_size == 65535

\* the length of the long scene
ManyDraws == 257

\* m_draws as gltf_load leaves it for a scene of n primitives
LongScenes == {[k \in 1 .. n |-> node_draw(0, 1, QuadIndices)] : n \in {1, MaxDraws, ManyDraws}}

\* draw() is at command_buffer.begin in the first frame
InitUboCall ==
    /\ unit = "application"
    /\ pc = "draw_begin"
    /\ draw_caller = "run"
    /\ should_close = FALSE
    /\ image_count = MinImageCount
    /\ m_draws \in LongScenes
    /\ draw_count = Len(m_draws)
    /\ m_ubo_min_field_align \in UboAlignments
    /\ acquired_image = 0
    /\ acquire_result = "eSuccess"
    /\ image_state = [i \in Images |-> IF i = acquired_image THEN "acquired" ELSE "free"]
    /\ m_next_image_ready = "signaled"
    /\ m_command_fences = [i \in PerFrameSlots(image_count) |->
                              IF i = CommandSlot(acquired_image)
                              THEN "unsignaled" ELSE CreatedFence]
    /\ m_command_buffers = [i \in PerFrameSlots(image_count) |-> "initial"]
    /\ m_uniform_buffers = [i \in PerFrameSlots(image_count) |-> 0]
    /\ ubo_data = NoImage
    /\ draw_i = 0
    /\ gpu_queue = <<>>
    /\ teardown_i = 1
    /\ teardown_log = <<>>
    /\ per_image_objects = PerImageObjects(image_count)
    /\ ubo_offset = 0
    /\ recorded_draws = <<>>

InitUbo ==
    InitUboCall /\ SelReady /\ MemIdle /\ UploadIdle /\ MainRunning /\ ReportIdle
SpecUbo == InitUbo /\ [][NextRecord]_vars

\* the bytes one pass of the loop writes: a glm::mat4 at ubo_data + offset
WrittenBytes(draw) ==
    draw.dynamic_ubo_offset .. (draw.dynamic_ubo_offset + SizeofMat4 - 1)

\* C32: whatever the number of draw records and the alignment, every
\* per-draw uniform write lies inside the slot's uniform buffer (offset +
\* 64 is at most the 65535 bytes created and mapped), and the running
\* offset stays a 32-bit value.
C32_UniformWritesInsideBuffer ==
    /\ \A k \in DOMAIN recorded_draws :
          WrittenBytes(recorded_draws[k]) \subseteq 0 .. (per_frame_ubo_size - 1)
    /\ ubo_offset <= UINT32_MAX

\* ------------------------------------------------------------------------
\* gltf_load (gtb.cpp:1520-1578): the two traversals of the scene, the
\* buffers and textures they upload and the draw records they leave
\* ------------------------------------------------------------------------
MaxNodes == 3
ManyPrimitives == 129

\* node.mesh == -1: the node has no mesh
NoMesh == 0 - 1

\* static_cast<uint8_t>(value)
StaticCastUint8(value) == value % 256

\* a default-constructed vk::DescriptorSet (VK_NULL_HANDLE)
NullDescriptorSet == 0

\* model.meshes: a mesh of one primitive, a mesh of two primitives that
\* share an index buffer view, and a mesh of many primitives, each with its
\* own index buffer view; a primitive is its indices' bufferView and the
\* uri of the image of its material's baseColorTexture
GltfMeshes ==
    <<  <<[bufferView |-> 0, uri |-> "a.png"]>>,
        <<[bufferView |-> 1, uri |-> "b.png"], [bufferView |-> 1, uri |-> "c.png"]>>,
        [k \in 1 .. ManyPrimitives |-> [bufferView |-> 1 + k, uri |-> "a.png"]]  >>

\* the ascending sequence of a set of node indices
RECURSIVE Ascending(_)
Ascending(S) ==
    IF S = {} THEN <<>>
    ELSE LET least == Min(S) IN <<least>> \o Ascending(S \ {least})

\* model.nodes for a tree given by the parent of every node (0: the node is
\* listed in scene.nodes) and the mesh of every node; meshes are numbered
\* from 0 as in the file
GltfNodes(parent, mesh) ==
    [n \in DOMAIN parent |->
        [mesh |-> mesh[n],
         children |-> Ascending({c \in DOMAIN parent : parent[c] = n})]]

GltfModel(parent, mesh) ==
    [meshes |-> GltfMeshes,
     nodes |-> GltfNodes(parent, mesh),
     scene |-> Ascending({n \in DOMAIN parent : parent[n] = 0})]

\* the files the loader is checked on: every tree of up to MaxNodes nodes
\* whose nodes have no mesh or one of the two small meshes, and one node with
\* the mesh of many primitives
GltfModels ==
    UNION {{GltfModel(parent, mesh) :
               parent \in {p \in [1 .. n -> 0 .. n - 1] : \A k \in 1 .. n : p[k] < k},
               mesh \in [1 .. n -> {NoMesh, 0, 1}]} : n \in 1 .. MaxNodes}
    \cup {GltfModel(<<0>>, <<2>>)}

\* The primitives gltf_load_node comes to, in its order: the primitives of
\* the node's mesh if it has one, then each child's in turn.
RECURSIVE LoadNodeVisits(_, _), LoadNodeChildren(_, _, _)
LoadNodeVisits(m, node_index) ==
    LET node == m.nodes[node_index]
        own == IF node.mesh # NoMesh
               THEN [k \in DOMAIN m.meshes[node.mesh + 1] |->
                        [node |-> node_index, k |-> k,
                         primitive |-> m.meshes[node.mesh + 1][k]]]
               ELSE <<>>
    IN own \o LoadNodeChildren(m, node.children, 1)
LoadNodeChildren(m, children, i) ==
    IF i > Len(children) THEN <<>>
    ELSE LoadNodeVisits(m, children[i]) \o LoadNodeChildren(m, children, i + 1)

\* The primitives gltf_load_immutable_state comes to, in its order: nothing
\* below a node without a mesh (if (node.mesh == -1) return;), otherwise
\* the primitives of the node's mesh, then each child's in turn.
RECURSIVE ImmutableStateVisits(_, _), ImmutableStateChildren(_, _, _)
ImmutableStateVisits(m, node_index) ==
    LET node == m.nodes[node_index]
    IN IF node.mesh = NoMesh THEN <<>>
       ELSE [k \in DOMAIN m.meshes[node.mesh + 1] |->
                [node |-> node_index, k |-> k,
                 primitive |-> m.meshes[node.mesh + 1][k]]]
            \o ImmutableStateChildren(m, node.children, 1)
ImmutableStateChildren(m, children, i) ==
    IF i > Len(children) THEN <<>>
    ELSE ImmutableStateVisits(m, children[i]) \o ImmutableStateChildren(m, children, i + 1)

\* what create_static_buffer stores for an index buffer view and for the
\* vertices of a primitive
IndexBufferOf(view) == [usage |-> "eIndexBuffer", bufferView |-> view, node |-> 0, k |-> 0]
VertexBufferOf(visit) ==
    [usage |-> "eVertexBuffer", bufferView |-> NoMesh, node |-> visit.node, k |-> visit.k]

\* gltf_load_state load_state(model): no buffer loaded, no draw, draw_index 0
NewLoadState ==
    [loaded_ibo |-> <<>>, draws |-> <<>>, simple_immutable_sets |-> <<>>, draw_index |-> 0]

gltfRest == <<unit, pc, draw_caller, should_close, image_count, image_state,
              m_next_image_ready, acquired_image, acquire_result, m_command_fences,
              m_command_buffers, m_uniform_buffers, ubo_data, draw_i, gpu_queue,
              teardown_i, teardown_log, per_image_objects, m_ubo_min_field_align,
              ubo_offset, recorded_draws>>

\* One pass of the loop over mesh.primitives in gltf_load_node:
\* gltf_load_ibo (the buffer of a bufferView seen before is taken from
\* loaded_ibo, otherwise uploaded and remembered), gltf_load_vbo (always
\* uploaded) and draws.push_back. The record also says, for the checks,
\* which primitive of which node it was made for.
GltfLoadNode ==
    /\ load_pc = "first_pass"
    /\ visits # <<>>
    /\ LET visit == Head(visits)
           view == visit.primitive.bufferView
           loaded == view \in DOMAIN load_state.loaded_ibo
           with_ibo == IF loaded THEN m_static_buffers
                       ELSE Append(m_static_buffers, IndexBufferOf(view))
           ibo == IF loaded THEN load_state.loaded_ibo[view]
                  ELSE StaticCastUint8(Len(m_static_buffers))
           vbo == StaticCastUint8(Len(with_ibo))
           node_draw_record ==
               node_draw(vbo, ibo, QuadIndices)
                  @@ [immutable_state |-> NullDescriptorSet,
                      node |-> visit.node, k |-> visit.k]
       IN /\ m_static_buffers' = Append(with_ibo, VertexBufferOf(visit))
          /\ load_state' =
                [load_state EXCEPT
                    !.loaded_ibo = IF loaded THEN @ ELSE (view :> ibo) @@ @,
                    !.draws = Append(@, node_draw_record)]
    /\ visits' = Tail(visits)
    /\ UNCHANGED <<load_pc, gltf_model, m_textures, descriptor_writes>>
    /\ UNCHANGED <<memVars, selVars, frameVars, uploadVars, mainVars, reportVars,
                   chainVars, extVars>>

\* The first traversal is done: draw_count = draws.size(), the pool and
\* allocateDescriptorSets of draw_count sets (handles 1 .. draw_count,
\* nothing written to them yet); the second traversal starts.
GltfAllocateSets ==
    /\ load_pc = "first_pass"
    /\ visits = <<>>
    /\ LET draw_count_local == Len(load_state.draws)
       IN /\ load_state' = [load_state EXCEPT
                               !.simple_immutable_sets = [i \in 1 .. draw_count_local |-> i]]
          /\ descriptor_writes' = [i \in 1 .. draw_count_local |-> "none"]
    /\ visits' = ImmutableStateChildren(gltf_model, gltf_model.scene, 1)
    /\ load_pc' = "second_pass"
    /\ UNCHANGED <<gltf_model, m_static_buffers, m_textures>>
    /\ UNCHANGED <<memVars, selVars, frameVars, uploadVars, mainVars, reportVars,
                   chainVars, extVars>>

\* One pass of the loop over mesh.primitives in gltf_load_immutable_state:
\* create_texture(uri), updateDescriptorSets on
\* simple_immutable_sets[draw_index], draws.at(draw_index).immutable_state
\* = that set, draw_index++.
GltfLoadImmutableState ==
    /\ load_pc = "second_pass"
    /\ visits # <<>>
    /\ LET visit == Head(visits)
           immutable_state_set ==
               load_state.simple_immutable_sets[load_state.draw_index + 1]
       IN /\ m_textures' = Append(m_textures, visit.primitive.uri)
          /\ descriptor_writes' =
                [descriptor_writes EXCEPT ![immutable_state_set] = visit.primitive.uri]
          /\ load_state' =
                [load_state EXCEPT
                    !.draws[load_state.draw_index + 1].immutable_state = immutable_state_set,
                    !.draw_index = @ + 1]
    /\ visits' = Tail(visits)
    /\ UNCHANGED <<load_pc, gltf_model, m_static_buffers>>
    /\ UNCHANGED <<memVars, selVars, frameVars, uploadVars, mainVars, reportVars,
                   chainVars, extVars>>

\* m_draws = load_state.draws; gltf_load returns
GltfLoadReturn ==
    /\ load_pc = "second_pass"
    /\ visits = <<>>
    /\ m_draws' = load_state.draws
    /\ draw_count' = Len(load_state.draws)
    /\ load_pc' = "returned"
    /\ UNCHANGED <<gltf_model, visits, load_state, m_static_buffers, m_textures,
                   descriptor_writes>>
    /\ UNCHANGED gltfRest
    /\ UNCHANGED <<memVars, selVars, uploadVars, mainVars, reportVars, chainVars, extVars>>

NextLoad == GltfLoadNode \/ GltfAllocateSets \/ GltfLoadImmutableState \/ GltfLoadReturn

\* gltf_load has read the file and is about to start the first traversal:
\* for (int node_index : scene.nodes) gltf_load_node(...)
InitLoadCall ==
    /\ load_pc = "first_pass"
    /\ gltf_model \in GltfModels
    /\ visits = LoadNodeChildren(gltf_model, gltf_model.scene, 1)
    /\ load_state = NewLoadState
    /\ m_static_buffers = <<>>
    /\ m_textures = <<>>
    /\ descriptor_writes = <<>>

InitLoad ==
    /\ InitLoadCall /\ SelReady /\ FrameIdle /\ MemIdle /\ UploadIdle /\ MainRunning
    /\ ChainIdle /\ ExtIdle
    /\ debug_report = NoReport /\ raised = NoError /\ callback_result = "none"
SpecLoad == InitLoad /\ [][NextLoad]_vars

\* the primitive a draw record was made for
PrimitiveOf(d) == gltf_model.meshes[gltf_model.nodes[d.node].mesh + 1][d.k]

\* C33: the 8-bit vbo and ibo of every draw record are the positions in
\* m_static_buffers of the vertex buffer uploaded for the record's primitive
\* and of the index buffer uploaded for the primitive's buffer view, however
\* many buffers have been uploaded.
C33_DrawIndicesNameOwnBuffers ==
    load_pc = "returned" =>
        \A i \in DOMAIN m_draws :
            LET d == m_draws[i] IN
            /\ d.vbo + 1 \in DOMAIN m_static_buffers
            /\ d.ibo + 1 \in DOMAIN m_static_buffers
            /\ m_static_buffers[d.vbo + 1] =
                   VertexBufferOf([node |-> d.node, k |-> d.k])
            /\ m_static_buffers[d.ibo + 1] = IndexBufferOf(PrimitiveOf(d).bufferView)

\* C34: after gltf_load, on every node tree, the i-th draw record holds the
\* i-th allocated descriptor set, and that set has been written with the
\* texture of the primitive the record was made for.
C34_EveryDrawHasItsImmutableSet ==
    load_pc = "returned" =>
        \A i \in DOMAIN m_draws :
            /\ m_draws[i].immutable_state = load_state.simple_immutable_sets[i]
            /\ descriptor_writes[i] = PrimitiveOf(m_draws[i]).uri

\* ------------------------------------------------------------------------
\* Claims about the one-time command buffers (SpecChain)
\* ------------------------------------------------------------------------
\* C35: a one-time command buffer is freed (cleanup_one_time_command_buffer)
\* once its submission has completed, on each of its uses: when an upload or
\* vk_create_swap_chain has returned, its command buffer is freed.
C35_OneTimeCommandBuffersFreed ==
    /\ up_pc = "returned" => copy_command_buffer = "freed"
    /\ chain_pc = "returned" => layout_command_buffer.state = "freed"

\* ------------------------------------------------------------------------
\* Claims about the ways the program ends (SpecRun)
\* ------------------------------------------------------------------------
\* C37: the ordered teardown is executed on every path by which the
\* program ends, an error raised part-way through init() or draw()
\* included: when the process has ended every step of cleanup() has run, no
\* GPU work is left and none of the objects created is left undestroyed.
C37_TeardownOnEveryExit ==
    ProcessEnded =>
        /\ teardown_i > Len(ApplicationTeardown)
        /\ teardown_log # <<>> /\ teardown_log[1] = "waitIdle"
        /\ gpu_queue = <<>>
        /\ ~m_swap_chain /\ ~m_device /\ ~m_surface /\ ~m_instance
        /\ \A i \in DOMAIN m_static_resources : ~m_static_resources[i].object

\* ------------------------------------------------------------------------
\* Claims about the acquisition fence (SpecFrame)
\* ------------------------------------------------------------------------
\* C36: m_next_image_ready is signaled whenever a draw() starts; it is reset
\* only while signaled (no acquisition waits on it), and an acquisition is
\* started only on the reset fence, so that at most one is pending at any
\* time.
C36_AcquireFenceDiscipline ==
    /\ [](pc = "draw_reset_image_fence" => m_next_image_ready = "signaled")
    /\ [][(m_next_image_ready' = "unsignaled" /\ m_next_image_ready # "unsignaled")
              => (pc = "draw_reset_image_fence" /\ m_next_image_ready = "signaled")]_vars
    /\ [][(m_next_image_ready' = "pending" /\ m_next_image_ready # "pending")
              => (pc = "draw_acquire" /\ m_next_image_ready = "unsignaled")]_vars

\* C36 witness: a draw() starts after an earlier draw() has acquired,
\* waited and presented.
C36_Witness ==
    /\ unit = "application"
    /\ pc = "draw_reset_image_fence"
    /\ m_next_image_ready = "signaled"
    /\ \E i \in Images : image_state[i] = "presented"

\* ------------------------------------------------------------------------
\* The run from the frame loop to the return of main, an acquisition that
\* fails included, under the scheduling the code has: the thread runs while
\* it can, glfwPollEvents returns after the events it has delivered, the
\* GPU and the presentation engine go on, and main handles what it catches.
\* ------------------------------------------------------------------------
NextExit ==
    \/ NextLoop
    \/ DrawAcquireThrows
    \/ MainCatch

SpecExitFair ==
    /\ InitLoop /\ [][NextExit]_vars
    /\ WF_vars(CpuStep)
    /\ SF_vars(PollReturn)
    /\ WF_vars(GpuComplete)
    /\ WF_vars(PresentationImageReady)
    /\ WF_vars(PresentationRelease)
    /\ WF_vars(MainCatch)

\* C38: once the event poll has delivered Escape, the loop is left at its
\* next test, cleanup() then runs once and to its end, no draw() follows the
\* start of cleanup, and the run ends with main returning EXIT_SUCCESS.
C38_EscapeEndsRunCleanly ==
    /\ [][(pc = "run_while" /\ should_close /\ pc' # pc) => pc' = "cleanup"]_vars
    /\ [](teardown_log # <<>> =>
            /\ pc \in {"cleanup", "exit", "main_returned"}
            /\ Len(teardown_log) <= Len(ApplicationTeardown))
    /\ [](should_close =>
            <>(/\ pc = "main_returned"
               /\ ret_val = "EXIT_SUCCESS"
               /\ teardown_i > Len(ApplicationTeardown)))

====
